---- MODULE Spec2Model ----
(***************************************************************************)
(* Model of the smartstore-keywords engines.                               *)
(*                                                                         *)
(* Part 1: KeywordScorer (src/src/lib/utils/index.ts).                     *)
(* Part 2: TitleGenerator (src/src/lib/algorithms/title-generator.ts).     *)
(*                                                                         *)
(* Number representation.  The code computes with IEEE doubles; the model  *)
(* uses integers in fixed units:                                           *)
(*   - a 0..1 quantity (normalizedVolume, normalizedCompetition, tagWeight,*)
(*     keyword.weight) is an integer count of 1/NormScale;                 *)
(*   - an algorithm weight is an integer count of 1/WeightScale;           *)
(*   - a product of the two is a count of 1/(NormScale*WeightScale);       *)
(*   - a keyword score (0..100, two decimals) is a count of 1/100;         *)
(*   - Math.log is a fixed-point logarithm with LogBits fractional bits.   *)
(* Strings are sequences of one-character strings; Korean syllables are    *)
(* written in ASCII transliteration, one syllable per element.             *)
(***************************************************************************)
EXTENDS Integers, Sequences, FiniteSets, TLC

VARIABLES
    weights,      \* KeywordScorer.weights
    groupStats,   \* KeywordScorer.groupStats (NoStats = null)
    last,         \* the most recent scorer call: [op, arg, stats, result]
    tgConfig,     \* TitleGenerator.config
    tgComponents, \* the components passed to generateTitles
    tgCatalog,    \* the keyword list passed to generateTitles
    tgResult,     \* what generateTitles did: [called, threw, error, titles]
    svTitle,      \* the string passed to generateSpacingVariants
    svResult,     \* what generateSpacingVariants returned: [called, spaced, unspaced]
    rules,        \* CategoryRecommender.rules
    crLast,       \* the most recent recommender call: [op, arg, result]
    customRulesShared, \* the array passed to the constructor is this.rules
    returnedRules, \* the array the last getRules call returned (NoArray = none)
    krLast,       \* the most recent KeywordRecommender.recommend call
    kwStore,      \* localStorage['smartstore_keywords'], parsed
    nextId,       \* how many ids generateId has given out
    clock,        \* the time getCurrentTimestamp reads, in completed writes
    kvLast,       \* the most recent keyword-store call: [op, id, arg, outcome]
    rateLimitMap, \* contact route: rateLimitMap, ip -> [count, resetTime]
    rlNow,        \* contact route: Date.now(), in half hours
    rlPassed,     \* per ip, the requests that passed checkRateLimit, by age
    rlLast,       \* the most recent POST: [ip, passed, status, validated, sent]
    currentAdapter, \* AdapterFactory.currentAdapter (NoAdapter = null)
    instantiated, \* how many LocalStorageAdapter objects were constructed
    connected,    \* the adapters whose connect() has resolved
    localStorageSupported, \* what isLocalStorageSupported() answers
    gaCalls       \* per caller, its getAdapter call: [pc, adapter, received]

scorerVars == <<weights, groupStats, last>>

titleVars == <<tgConfig, tgComponents, tgCatalog, tgResult>>

spacingVars == <<svTitle, svResult>>

recommenderVars == <<rules, crLast>>

aliasVars == <<customRulesShared, returnedRules>>

coreVars == <<scorerVars, titleVars, spacingVars, recommenderVars>>

\* the variables of the services
storeVars == <<kwStore, nextId, clock, kvLast>>

rateVars == <<rateLimitMap, rlNow, rlPassed, rlLast>>

factoryVars == <<currentAdapter, instantiated, connected, localStorageSupported,
                 gaCalls>>

serviceVars == <<krLast, storeVars, rateVars, factoryVars>>

extVars == <<aliasVars, serviceVars>>

vars == <<weights, groupStats, last, tgConfig, tgComponents, tgCatalog, tgResult,
          svTitle, svResult, rules, crLast, customRulesShared, returnedRules,
          krLast, kwStore, nextId, clock, kvLast, rateLimitMap, rlNow, rlPassed,
          rlLast, currentAdapter, instantiated, connected, localStorageSupported,
          gaCalls>>

-----------------------------------------------------------------------------
(* Generic helpers *)

Min2(a, b) == IF a < b THEN a ELSE b

Max2(a, b) == IF a > b THEN a ELSE b

RECURSIVE SeqSum(_)
SeqSum(s) == IF s = <<>> THEN 0 ELSE Head(s) + SeqSum(Tail(s))

RECURSIVE SeqMin(_)
SeqMin(s) == IF Len(s) = 1 THEN s[1] ELSE Min2(s[1], SeqMin(Tail(s)))

RECURSIVE SeqMax(_)
SeqMax(s) == IF Len(s) = 1 THEN s[1] ELSE Max2(s[1], SeqMax(Tail(s)))

\* Math.round(a / b) for a >= 0, b > 0: floor(a/b + 1/2)
RoundDiv(a, b) == (a \div b) + (IF 2 * (a % b) >= b THEN 1 ELSE 0)

\* all sequences over S of length 0..n
RECURSIVE SeqsUpTo(_, _)
SeqsUpTo(S, n) ==
    IF n = 0 THEN {<<>>}
    ELSE LET shorter == SeqsUpTo(S, n - 1)
         IN shorter \cup {Append(s, x) : s \in {t \in shorter : Len(t) = n - 1}, x \in S}

-----------------------------------------------------------------------------
(* Fixed units *)

NormScale == 6000

WeightScale == 10

AvgScale == 1000

LogBits == 12

LogOne == 2 ^ LogBits

Ln2Fix == 2839

-----------------------------------------------------------------------------
(* Math.log: floor(log2) by halving, LogBits fractional bits by repeated   *)
(* squaring of the mantissa, then scaled by ln 2.                          *)

RECURSIVE FloorLog2(_)
FloorLog2(n) == IF n < 2 THEN 0 ELSE 1 + FloorLog2(n \div 2)

RECURSIVE Pow2(_)
Pow2(e) == IF e = 0 THEN 1 ELSE 2 * Pow2(e - 1)

RECURSIVE Log2Frac(_, _)
Log2Frac(m, bits) ==
    IF bits = 0 THEN 0
    ELSE LET sq == (m * m) \div LogOne
         IN IF sq >= 2 * LogOne
            THEN Pow2(bits - 1) + Log2Frac(sq \div 2, bits - 1)
            ELSE Log2Frac(sq, bits - 1)

Log2Fix(n) ==
    LET e == FloorLog2(n)
        m == (n * LogOne) \div Pow2(e)
    IN e * LogOne + Log2Frac(m, LogBits)

MathLogCalc(n) == (Log2Fix(n) * Ln2Fix) \div LogOne

-----------------------------------------------------------------------------
(* Keyword data *)

\* null for KeywordScorer.groupStats, an omitted groupStats argument
NoStats == [isNull |-> TRUE]

\* an absent optional number (keyword.weight, keyword.score, breakdown.ctrBonus)
Undefined == -1

NoWeight == Undefined

NoScore == Undefined

KeywordTags == {"trending", "longtail", "seasonal", "event", "brand", "category",
                "feature", "custom"}

Kw(term, volume, competition, weight, tags) ==
    [term |-> term, volume |-> volume, competition |-> competition,
     weight |-> weight, tags |-> tags, score |-> NoScore]

KwSmartphone == Kw("smartphone", 10000, 85, NoWeight, <<>>)

KwCase == Kw("case", 500, 20, NoWeight, <<>>)

KwNiche == Kw("niche", 0, 0, NormScale, <<"trending", "brand", "longtail">>)

KeywordUniverse == {KwSmartphone, KwCase, KwNiche}

MaxBatch == 2

Batches == SeqsUpTo(KeywordUniverse, MaxBatch)

\* AlgorithmWeights {volume, competition, tag, ctr?}; ctr 0 stands for absent
Wts(v, c, t, r) == [volume |-> v, competition |-> c, tag |-> t, ctr |-> r]

MaxWeight == 10

WeightConfigs ==
    {Wts(7, 3, 1, 0), Wts(MaxWeight, MaxWeight, MaxWeight, MaxWeight),
     Wts(0, MaxWeight, 0, 0)}

\* the volumes the model can meet, and Math.log(volume + 1) of each, computed once
VolumeDomain == {k.volume : k \in KeywordUniverse} \cup {0, 1, 10000}

MathLogTable == [n \in {v + 1 : v \in VolumeDomain} |-> MathLogCalc(n)]

MathLog(n) == MathLogTable[n]

-----------------------------------------------------------------------------
(* KeywordScorer *)

DefaultEmptyStats ==
    [minVolume |-> 0, maxVolume |-> 1, avgVolume |-> 0,
     minCompetition |-> 0, maxCompetition |-> 1, avgCompetition |-> 0,
     totalKeywords |-> 0]

\* the statistics of a non-empty list
NonEmptyGroupStats(keywords) ==
    LET volumes == [i \in 1..Len(keywords) |-> keywords[i].volume]
        competitions == [i \in 1..Len(keywords) |-> keywords[i].competition]
    IN [minVolume |-> SeqMin(volumes),
        maxVolume |-> SeqMax(volumes),
        avgVolume |-> (SeqSum(volumes) * AvgScale) \div Len(volumes),
        minCompetition |-> SeqMin(competitions),
        maxCompetition |-> SeqMax(competitions),
        avgCompetition |-> (SeqSum(competitions) * AvgScale) \div Len(competitions),
        totalKeywords |-> Len(keywords)]

\* a plausible slip: the empty batch answered with the getDefaultStats() values
CalcGroupStatsEmptyAsDefault(keywords) ==
    IF Len(keywords) = 0
    THEN [minVolume |-> 0, maxVolume |-> 10000, avgVolume |-> 1000 * AvgScale,
          minCompetition |-> 0, maxCompetition |-> 100,
          avgCompetition |-> 50 * AvgScale, totalKeywords |-> 1]
    ELSE NonEmptyGroupStats(keywords)

\* the value calculateGroupStats returns
CalcGroupStats(keywords) ==
    IF Len(keywords) = 0 THEN DefaultEmptyStats ELSE NonEmptyGroupStats(keywords)

\* this.groupStats after calculateGroupStats: set only on the non-empty path
GroupStatsAfter(keywords, cached) ==
    IF Len(keywords) = 0 THEN cached ELSE CalcGroupStats(keywords)

GetDefaultStats ==
    [minVolume |-> 0, maxVolume |-> 10000, avgVolume |-> 1000 * AvgScale,
     minCompetition |-> 0, maxCompetition |-> 100, avgCompetition |-> 50 * AvgScale,
     totalKeywords |-> 1]

\* groupStats || this.groupStats || this.getDefaultStats()
SelectStats(argStats, cached) ==
    IF argStats # NoStats THEN argStats
    ELSE IF cached # NoStats THEN cached
    ELSE GetDefaultStats

\* a plausible slip: equal min and max answered with 0
NormalizeVolumeZero(volume, stats) ==
    IF stats.maxVolume = stats.minVolume THEN 0
    ELSE ((MathLog(volume + 1) - MathLog(stats.minVolume + 1)) * NormScale)
             \div (MathLog(stats.maxVolume + 1) - MathLog(stats.minVolume + 1))

NormalizeVolume(volume, stats) ==
    IF stats.maxVolume = stats.minVolume THEN NormScale \div 2
    ELSE LET logVolume == MathLog(volume + 1)
             logMin == MathLog(stats.minVolume + 1)
             logMax == MathLog(stats.maxVolume + 1)
         IN ((logVolume - logMin) * NormScale) \div (logMax - logMin)

\* tagWeights table, in tenths
TagBaseWeight(tag) ==
    CASE tag = "trending" -> 8
      [] tag = "longtail" -> 6
      [] tag = "seasonal" -> 4
      [] tag = "event" -> 3
      [] tag = "brand" -> 7
      [] tag = "category" -> 5
      [] tag = "feature" -> 4
      [] tag = "custom" -> 2

CalculateTagWeight(tags) ==
    IF Len(tags) = 0 THEN 0
    ELSE LET totalWeight == SeqSum([i \in 1..Len(tags) |-> TagBaseWeight(tags[i])])
             avgWeight == (totalWeight * (NormScale \div 10)) \div Len(tags)
             tagCountBonus == IF Len(tags) >= 3 THEN NormScale \div 5
                              ELSE (Len(tags) * (NormScale \div 5)) \div 3
         IN Min2(NormScale, avgWeight + tagCountBonus)

\* a plausible slip: the competition weight left out of the denominator
RawScoreDenUnweighted(normalizedCompetition, w) ==
    (normalizedCompetition + NormScale) * WeightScale

\* competitionPenalty + 1, in units of 1/(NormScale*WeightScale)
RawScoreDen(normalizedCompetition, w) ==
    normalizedCompetition * w.competition + NormScale * WeightScale

\* a plausible slip: no clamp to 0..100
FinalScoreUnclamped(num, den) ==
    IF num < 0 THEN 0 - RoundDiv((0 - num) * 100, den) * 100
    ELSE RoundDiv(num * 100, den) * 100

\* Math.round(Math.min(100, Math.max(0, rawScore * 100)) * 100) / 100, in 1/100
FinalScore(num, den) ==
    IF num >= den THEN 10000
    ELSE IF num <= 0 THEN 0
    ELSE RoundDiv(num * 10000, den)

GenerateExplanation(keyword, normalizedVolume, normalizedCompetition, ctrBonus) ==
    <<IF 10 * normalizedVolume > 8 * NormScale THEN "volume-high"
      ELSE IF 10 * normalizedVolume > 5 * NormScale THEN "volume-medium"
      ELSE "volume-low">>
    \o <<IF 10 * normalizedCompetition < 3 * NormScale THEN "competition-low"
         ELSE IF 10 * normalizedCompetition < 7 * NormScale THEN "competition-medium"
         ELSE "competition-high">>
    \o (IF Len(keyword.tags) > 0 THEN <<keyword.tags>> ELSE <<>>)
    \o (IF ctrBonus > 0 THEN <<"ctr">> ELSE <<>>)

\* calculateScore's result once stats is chosen
ScoreResult(keyword, stats, w) ==
    LET normalizedVolume == NormalizeVolume(keyword.volume, stats)
        normalizedCompetition == keyword.competition * (NormScale \div 100)
        tagWeight == CalculateTagWeight(keyword.tags)
        volumeScore == normalizedVolume * w.volume
        competitionPenalty == normalizedCompetition * w.competition
        tagBonus == tagWeight * w.tag
        ctrBonus == IF keyword.weight # NoWeight /\ keyword.weight # 0 /\ w.ctr # 0
                    THEN keyword.weight * w.ctr ELSE 0
    IN [score |-> FinalScore(volumeScore + tagBonus + ctrBonus,
                             RawScoreDen(normalizedCompetition, w)),
        normalizedVolume |-> normalizedVolume,
        normalizedCompetition |-> normalizedCompetition,
        tagWeight |-> tagWeight,
        breakdown |-> [volumeScore |-> volumeScore,
                       competitionPenalty |-> competitionPenalty,
                       tagBonus |-> tagBonus,
                       ctrBonus |-> IF ctrBonus > 0 THEN ctrBonus ELSE Undefined],
        explanation |-> GenerateExplanation(keyword, normalizedVolume,
                                            normalizedCompetition, ctrBonus)]

CalcScore(keyword, argStats, cached, w) ==
    ScoreResult(keyword, SelectStats(argStats, cached), w)

\* a plausible slip: the batch scored with the statistics cached before this call
CalcScoresStale(keywords, cached, w) ==
    [i \in 1..Len(keywords) |->
        [keywords[i] EXCEPT !.score = CalcScore(keywords[i], NoStats, cached, w).score]]

\* the list calculateScores returns
CalcScores(keywords, cached, w) ==
    LET stats == CalcGroupStats(keywords)
    IN [i \in 1..Len(keywords) |->
           [keywords[i] EXCEPT
               !.score = CalcScore(keywords[i], stats,
                                   GroupStatsAfter(keywords, cached), w).score]]

-----------------------------------------------------------------------------
(* Scorer operations *)

NoCall == [op |-> "none", arg |-> <<>>, stats |-> NoStats, result |-> <<>>]

\* statistics a caller may pass to calculateScore
StatsArgs == {CalcGroupStats(b) : b \in Batches}

\* lists a caller may pass: fresh batches, or a list calculateScores returned
BatchArgs ==
    Batches \cup (IF last.op = "calculateScores" THEN {last.result} ELSE {})

ScorerInit ==
    /\ weights \in WeightConfigs
    /\ groupStats = NoStats
    /\ last = NoCall

CalculateGroupStats(keywords) ==
    /\ groupStats' = GroupStatsAfter(keywords, groupStats)
    /\ last' = [op |-> "calculateGroupStats", arg |-> keywords, stats |-> NoStats,
                result |-> CalcGroupStats(keywords)]
    /\ UNCHANGED <<extVars, weights, titleVars, spacingVars, recommenderVars>>

CalculateScore(keyword, argStats) ==
    /\ last' = [op |-> "calculateScore", arg |-> keyword, stats |-> argStats,
                result |-> CalcScore(keyword, argStats, groupStats, weights)]
    /\ UNCHANGED <<extVars, weights, groupStats, titleVars, spacingVars, recommenderVars>>

CalculateScores(keywords) ==
    /\ groupStats' = GroupStatsAfter(keywords, groupStats)
    /\ last' = [op |-> "calculateScores", arg |-> keywords, stats |-> NoStats,
                result |-> CalcScores(keywords, groupStats, weights)]
    /\ UNCHANGED <<extVars, weights, titleVars, spacingVars, recommenderVars>>

ScorerNext ==
    \/ \E b \in Batches : CalculateGroupStats(b)
    \/ \E k \in KeywordUniverse, s \in {NoStats} \cup StatsArgs : CalculateScore(k, s)
    \/ \E b \in BatchArgs : CalculateScores(b)

-----------------------------------------------------------------------------
(* Strings: sequences of one-character strings *)

EmptyStr == <<>>

UpperChars == <<"A", "B", "E", "L", "S", "U">>

LowerChars == <<"a", "b", "e", "l", "s", "u">>

OtherLatin == {"c", "g", "x"}

DigitChars == {"1", "5"}

\* Korean syllables, transliterated
HangulChars ==
    {"ke", "i", "seu", "hal", "in", "pon", "ga", "bang", "yeo", "reum",
     "choe", "go", "jeo", "teuk", "ben", "teu", "mu", "ryo", "bae", "song",
     "nam", "seong", "ja", "maen", "jeu", "syeo", "cheu", "ba", "ji", "jeong",
     "jang", "kae", "ju", "eol", "ui", "ryu", "seu", "ma", "yeong"}

\* \s of a regular expression: the space and the tab stand for the class
SpaceChars == {" ", "\t"}

IsSpace(c) == c \in SpaceChars

IsUpper(c) == \E k \in 1..Len(UpperChars) : UpperChars[k] = c

IsLatin(c) ==
    \/ IsUpper(c)
    \/ \E k \in 1..Len(LowerChars) : LowerChars[k] = c
    \/ c \in OtherLatin

IsDigit(c) == c \in DigitChars

IsHangul(c) == c \in HangulChars

\* \w of a regular expression: [A-Za-z0-9_]
IsWordChar(c) == IsLatin(c) \/ IsDigit(c) \/ c = "_"

LowerChar(c) ==
    IF IsUpper(c) THEN LowerChars[CHOOSE k \in 1..Len(UpperChars) : UpperChars[k] = c]
    ELSE c

\* String.prototype.toLowerCase
ToLowerCase(s) == [k \in 1..Len(s) |-> LowerChar(s[k])]

\* String.prototype.includes
Includes(s, sub) ==
    \E k \in 0..(Len(s) - Len(sub)) : SubSeq(s, k + 1, k + Len(sub)) = sub

RECURSIVE SkipSpaces(_, _)
SkipSpaces(s, k) == IF k <= Len(s) /\ IsSpace(s[k]) THEN SkipSpaces(s, k + 1) ELSE k

RECURSIVE SplitFrom(_, _, _, _)
SplitFrom(s, k, cur, acc) ==
    IF k > Len(s) THEN Append(acc, cur)
    ELSE IF IsSpace(s[k]) THEN SplitFrom(s, SkipSpaces(s, k), EmptyStr, Append(acc, cur))
    ELSE SplitFrom(s, k + 1, Append(cur, s[k]), acc)

\* s.split(/\s+/): leading or trailing white space yields an empty first or last
\* piece, and the empty string yields one empty piece
SplitWs(s) == SplitFrom(s, 1, EmptyStr, <<>>)

RECURSIVE Join(_, _)
Join(words, sep) ==
    IF Len(words) = 0 THEN EmptyStr
    ELSE IF Len(words) = 1 THEN words[1]
    ELSE words[1] \o sep \o Join(Tail(words), sep)

RECURSIVE TrimStart(_)
TrimStart(s) == IF Len(s) > 0 /\ IsSpace(s[1]) THEN TrimStart(Tail(s)) ELSE s

RECURSIVE TrimEnd(_)
TrimEnd(s) ==
    IF Len(s) > 0 /\ IsSpace(s[Len(s)]) THEN TrimEnd(SubSeq(s, 1, Len(s) - 1)) ELSE s

\* String.prototype.trim
Trim(s) == TrimEnd(TrimStart(s))

\* Array.prototype.slice(0, n)
Slice0(seq, n) == SubSeq(seq, 1, Min2(Len(seq), n))

-----------------------------------------------------------------------------
(* TitleGenerator: validation, keyword selection, candidates *)

\* a 0..1 sub-score of evaluateTitle is an integer count of 1/SubScale
SubScale == 10000

\* an entry of ProductTitle.issues: the fixed text, or the text's kind with the
\* values interpolated into it
Issue(kind, detail) == [kind |-> kind, detail |-> detail]

\* a FormError message: the fixed text's kind with the values interpolated into it
Message(kind, max, terms) == [kind |-> kind, max |-> max, terms |-> terms]

FormError(field, message) == [field |-> field, message |-> message]

\* a plausible slip: the catalog looked up without lower-casing
ValidateInputCaseSensitive(cfg, components, keywords) ==
    LET requested == components.keywords
        availableKeywords == {keywords[k].term : k \in 1..Len(keywords)}
        IsMissing(term) == term \notin availableKeywords
        missingKeywords == SelectSeq(requested, IsMissing)
        errors ==
            (IF Len(requested) = 0
             THEN <<FormError("keywords", Message("keywordRequired", 0, <<>>))>>
             ELSE <<>>)
            \o (IF Len(requested) > cfg.maxKeywords
                THEN <<FormError("keywords",
                                 Message("tooManyKeywords", cfg.maxKeywords, <<>>))>>
                ELSE <<>>)
            \o (IF Len(missingKeywords) > 0
                THEN <<FormError("keywords",
                                 Message("missingKeywords", 0, missingKeywords))>>
                ELSE <<>>)
    IN [isValid |-> Len(errors) = 0, errors |-> errors]

ValidateInput(cfg, components, keywords) ==
    LET requested == components.keywords
        availableKeywords == {ToLowerCase(keywords[k].term) : k \in 1..Len(keywords)}
        IsMissing(term) == ToLowerCase(term) \notin availableKeywords
        missingKeywords == SelectSeq(requested, IsMissing)
        errors ==
            (IF Len(requested) = 0
             THEN <<FormError("keywords", Message("keywordRequired", 0, <<>>))>>
             ELSE <<>>)
            \o (IF Len(requested) > cfg.maxKeywords
                THEN <<FormError("keywords",
                                 Message("tooManyKeywords", cfg.maxKeywords, <<>>))>>
                ELSE <<>>)
            \o (IF Len(missingKeywords) > 0
                THEN <<FormError("keywords",
                                 Message("missingKeywords", 0, missingKeywords))>>
                ELSE <<>>)
    IN [isValid |-> Len(errors) = 0, errors |-> errors]

\* new Error(`...: ${validation.errors.map(e => e.message).join(', ')}`):
\* what the thrown Error holds of each FormError
ThrownPart(e) == [message |-> e.message]

ThrownError(errors) == [parts |-> [k \in 1..Len(errors) |-> ThrownPart(errors[k])]]

\* a plausible slip: x goes before the elements of the same score
InsertByScoreFirst(sorted, x) ==
    LET k == Cardinality({j \in 1..Len(sorted) : sorted[j].score > x.score})
    IN SubSeq(sorted, 1, k) \o <<x>> \o SubSeq(sorted, k + 1, Len(sorted))

\* where x goes in a list sorted by descending score: after every element whose
\* score is not smaller (Array.prototype.sort is stable)
InsertByScore(sorted, x) ==
    LET k == Cardinality({j \in 1..Len(sorted) : sorted[j].score >= x.score})
    IN SubSeq(sorted, 1, k) \o <<x>> \o SubSeq(sorted, k + 1, Len(sorted))

\* list.sort((a, b) => b.score - a.score)
RECURSIVE SortByScoreDesc(_)
SortByScoreDesc(list) ==
    IF Len(list) = 0 THEN <<>>
    ELSE InsertByScore(SortByScoreDesc(SubSeq(list, 1, Len(list) - 1)), list[Len(list)])

\* keywordMap.get(term.toLowerCase())?.score || 0: of equal keys the last one wins
CatalogScore(allKeywords, term) ==
    LET hits == {k \in 1..Len(allKeywords) :
                    ToLowerCase(allKeywords[k].term) = ToLowerCase(term)}
    IN IF hits = {} THEN 0
       ELSE LET kw == allKeywords[CHOOSE k \in hits : \A j \in hits : j <= k]
            IN IF kw.score = NoScore THEN 0 ELSE kw.score

SelectAndSortKeywords(cfg, allKeywords, requestedKeywords) ==
    LET selectedKeywords ==
            [k \in 1..Len(requestedKeywords) |->
                [term |-> requestedKeywords[k],
                 score |-> CatalogScore(allKeywords, requestedKeywords[k])]]
        limitedKeywords == Slice0(SortByScoreDesc(selectedKeywords), cfg.maxKeywords)
    IN [k \in 1..Len(limitedKeywords) |-> limitedKeywords[k].term]

RECURSIVE PairLoop(_, _, _)
PairLoop(keywords, a, b) ==
    IF a > Len(keywords) - 1 THEN <<>>
    ELSE IF b > Len(keywords) THEN PairLoop(keywords, a + 1, a + 2)
    ELSE <<<<keywords[a], keywords[b]>>, <<keywords[b], keywords[a]>>>>
         \o PairLoop(keywords, a, b + 1)

RECURSIVE TripleLoop(_, _, _, _)
TripleLoop(keywords, a, b, c) ==
    IF a > Len(keywords) - 2 THEN <<>>
    ELSE IF b > Len(keywords) - 1 THEN TripleLoop(keywords, a + 1, a + 2, a + 3)
    ELSE IF c > Len(keywords) THEN TripleLoop(keywords, a, b + 1, b + 2)
    ELSE <<<<keywords[a], keywords[b], keywords[c]>>>>
         \o TripleLoop(keywords, a, b, c + 1)

GenerateKeywordCombinations(keywords) ==
    PairLoop(keywords, 1, 2)
    \o (IF Len(keywords) >= 3 THEN TripleLoop(keywords, 1, 2, 3) ELSE <<>>)

\* id, timestamps, keyword_ids and components play no part in what follows
CreateTitleFromPattern(titleText) ==
    [title_text |-> titleText, score |-> 0, issues |-> <<>>]

Sp == <<" ">>

GenerateTitleCandidates(components, keywords) ==
    LET kw == Join(keywords, Sp)
        category == components.category
        features == Join(components.features, Sp)
        usage == components.usage
        demographic == components.demographic
        firstFeature == IF Len(components.features) > 0 THEN components.features[1]
                        ELSE EmptyStr
        combos == Slice0(GenerateKeywordCombinations(keywords), 5)
        candidates ==
            <<CreateTitleFromPattern(
                Trim(kw \o Sp \o category \o Sp \o features \o Sp \o usage))>>
            \o (IF Len(category) > 0
                THEN <<CreateTitleFromPattern(
                        Trim(category \o Sp \o kw \o Sp \o features \o Sp \o usage))>>
                ELSE <<>>)
            \o (IF Len(components.features) > 0
                THEN <<CreateTitleFromPattern(
                        Trim(kw \o Sp \o firstFeature \o Sp \o category \o Sp \o usage))>>
                ELSE <<>>)
            \o (IF Len(demographic) > 0
                THEN <<CreateTitleFromPattern(
                        Trim(demographic \o Sp \o kw \o Sp \o category \o Sp \o features))>>
                ELSE <<>>)
            \o (IF Len(usage) > 0
                THEN <<CreateTitleFromPattern(
                        Trim(usage \o Sp \o kw \o Sp \o category \o Sp \o features))>>
                ELSE <<>>)
            \o (IF Len(keywords) >= 2
                THEN [k \in 1..Len(combos) |->
                        CreateTitleFromPattern(
                            Trim(Join(combos[k], Sp) \o Sp \o category \o Sp
                                 \o features \o Sp \o usage))]
                ELSE <<>>)
        NonEmpty(candidate) == Len(candidate.title_text) > 0
    IN SelectSeq(candidates, NonEmpty)

-----------------------------------------------------------------------------
(* TitleGenerator: post-processing *)

\* a plausible slip: stopwords matched without lower-casing
RemoveStopwordsCaseSensitive(cfg, text) ==
    LET words == SplitWs(text)
        IsStopword(word) ==
            \E k \in 1..Len(cfg.stopwords) : Includes(word, cfg.stopwords[k])
        NotStopword(word) == ~IsStopword(word)
    IN [text |-> Join(SelectSeq(words, NotStopword), Sp),
        removedWords |-> SelectSeq(words, IsStopword)]

RemoveStopwords(cfg, text) ==
    LET words == SplitWs(text)
        IsStopword(word) ==
            \E k \in 1..Len(cfg.stopwords) :
                Includes(ToLowerCase(word), ToLowerCase(cfg.stopwords[k]))
        NotStopword(word) == ~IsStopword(word)
    IN [text |-> Join(SelectSeq(words, NotStopword), Sp),
        removedWords |-> SelectSeq(words, IsStopword)]

RemoveDuplicateWords(text) ==
    LET words == SplitWs(text)
        Seen(k) == \E j \in 1..(k - 1) : ToLowerCase(words[j]) = ToLowerCase(words[k])
        kept == SelectSeq([k \in 1..Len(words) |-> k], LAMBDA k : ~Seen(k))
        dropped == SelectSeq([k \in 1..Len(words) |-> k], Seen)
    IN [text |-> Join([k \in 1..Len(kept) |-> words[kept[k]]], Sp),
        removedDuplicates |-> [k \in 1..Len(dropped) |-> words[dropped[k]]]]

\* a plausible slip: runs of white space left as they are
CollapseSpacesSkipped(s) == s

\* text.replace(/\s+/g, ' ')
RECURSIVE CollapseSpaces(_)
CollapseSpaces(s) ==
    IF Len(s) = 0 THEN EmptyStr
    ELSE IF IsSpace(s[1]) THEN Sp \o CollapseSpaces(SubSeq(s, SkipSpaces(s, 1), Len(s)))
    ELSE <<s[1]>> \o CollapseSpaces(Tail(s))

\* the three boundary patterns of normalizeSpacing
IsBoundary(rule, left, right) ==
    CASE rule = "hangul-latin" -> IsHangul(left) /\ IsLatin(right)
      [] rule = "latin-hangul" -> IsLatin(left) /\ IsHangul(right)
      [] rule = "digit-hangul" -> IsDigit(left) /\ IsHangul(right)

\* text.replace(/([L])([R])/g, '$1 $2'): a match consumes both characters, so
\* the scan resumes after the second one
RECURSIVE SpaceBetween(_, _)
SpaceBetween(s, rule) ==
    IF Len(s) < 2 THEN s
    ELSE IF IsBoundary(rule, s[1], s[2])
         THEN <<s[1], " ", s[2]>> \o SpaceBetween(SubSeq(s, 3, Len(s)), rule)
    ELSE <<s[1]>> \o SpaceBetween(Tail(s), rule)

NormalizeSpacing(text) ==
    Trim(SpaceBetween(SpaceBetween(SpaceBetween(CollapseSpaces(text), "hangul-latin"),
                                   "latin-hangul"),
                      "digit-hangul"))

\* text.replace(/\s/g, '')
RemoveSpacing(text) == SelectSeq(text, LAMBDA c : ~IsSpace(c))

GenerateSpacingVariants(title) ==
    LET spaced == NormalizeSpacing(title)
    IN [spaced |-> spaced, unspaced |-> RemoveSpacing(spaced)]

NoVariants == [spaced |-> <<"undefined">>, unspaced |-> <<"undefined">>]

PostProcessTitle(cfg, title) ==
    LET filtered == RemoveStopwords(cfg, title.title_text)
        deduped == RemoveDuplicateWords(filtered.text)
        processedText == IF cfg.removeDuplicates THEN deduped.text ELSE filtered.text
        issues ==
            (IF Len(filtered.removedWords) > 0
             THEN <<Issue("stopwordsRemoved", filtered.removedWords)>> ELSE <<>>)
            \o (IF cfg.removeDuplicates /\ Len(deduped.removedDuplicates) > 0
                THEN <<Issue("duplicatesRemoved", deduped.removedDuplicates)>> ELSE <<>>)
            \o (IF Len(processedText) > cfg.maxLength
                THEN <<Issue("lengthExceeded", <<Len(processedText), cfg.maxLength>>)>>
                ELSE <<>>)
    IN [title_text |-> processedText,
        score |-> title.score,
        issues |-> title.issues \o issues,
        spacing_variants |-> IF cfg.generateSpacingVariants
                             THEN GenerateSpacingVariants(processedText)
                             ELSE NoVariants]

-----------------------------------------------------------------------------
(* TitleGenerator: quality evaluation *)

GetKeywordsFromTitle(title) == Slice0(SplitWs(title), 3)

EvaluateKeywordPlacement(cfg, title) ==
    LET words == SplitWs(title)
        keywordTerms == IF "keywords" \in cfg.template.required_components
                        THEN GetKeywordsFromTitle(title) ELSE <<>>
        Hits(keyword) ==
            {k \in 1..Len(words) :
                Includes(ToLowerCase(words[k]), ToLowerCase(keyword))}
        \* findIndex counts from 0
        PositionScore(keyword) ==
            IF Hits(keyword) = {} THEN 0
            ELSE LET position == (CHOOSE k \in Hits(keyword) :
                                     \A j \in Hits(keyword) : k <= j) - 1
                 IN Max2(0, ((Len(words) - position) * SubScale) \div Len(words))
        score == SeqSum([k \in 1..Len(keywordTerms) |-> PositionScore(keywordTerms[k])])
    IN IF Len(words) = 0 THEN 0
       ELSE IF Len(keywordTerms) > 0 THEN score \div Len(keywordTerms)
       ELSE SubScale \div 2

EvaluateReadability(title) ==
    LET length == Len(title)
        wordCount == Len(SplitWs(title))
        IsSpecial(c) == ~(IsWordChar(c) \/ IsSpace(c) \/ IsHangul(c))
        specialCharCount == Len(SelectSeq(title, IsSpecial))
        upperRun == \E k \in 1..(Len(title) - 2) :
                        IsUpper(title[k]) /\ IsUpper(title[k + 1]) /\ IsUpper(title[k + 2])
        score == SubScale
                 - (IF length < 10 \/ length > 80 THEN (3 * SubScale) \div 10 ELSE 0)
                 - (IF wordCount < 2 \/ wordCount > 12 THEN (2 * SubScale) \div 10 ELSE 0)
                 - (IF specialCharCount > 3 THEN (2 * SubScale) \div 10 ELSE 0)
                 - (IF upperRun THEN SubScale \div 10 ELSE 0)
    IN Max2(0, score)

\* a plausible slip: the excess over idealMax divided by maxLength
EvaluateLengthScoreWide(cfg, title) ==
    LET length == Len(title)
        maxLength == cfg.maxLength
    IN IF length > maxLength THEN 0
       ELSE IF 10 * length >= 6 * maxLength /\ 10 * length <= 9 * maxLength THEN SubScale
       ELSE IF 10 * length < 6 * maxLength
            THEN (10 * length * SubScale) \div (6 * maxLength)
       ELSE SubScale - (3 * (10 * length - 9 * maxLength) * SubScale) \div (100 * maxLength)

EvaluateLengthScore(cfg, title) ==
    LET length == Len(title)
        maxLength == cfg.maxLength
    IN IF length > maxLength THEN 0
       \* idealMin = maxLength * 0.6, idealMax = maxLength * 0.9
       ELSE IF 10 * length >= 6 * maxLength /\ 10 * length <= 9 * maxLength THEN SubScale
       ELSE IF 10 * length < 6 * maxLength
            THEN (10 * length * SubScale) \div (6 * maxLength)
       ELSE SubScale - (3 * (10 * length - 9 * maxLength) * SubScale) \div (10 * maxLength)

CommonPhrases ==
    <<<<"choe", "go">>, <<"choe", "jeo", "ga">>, <<"teuk", "ga">>, <<"hal", "in">>,
      <<"i", "ben", "teu">>, <<"mu", "ryo", "bae", "song">>>>

EvaluateUniqueness(title) ==
    LET Used(phrase) == Includes(title, phrase)
        numberCount == Len(SelectSeq(title, IsDigit))
        score == SubScale
                 - Len(SelectSeq(CommonPhrases, Used)) * (SubScale \div 10)
                 - (IF numberCount > 5 THEN SubScale \div 10 ELSE 0)
    IN Max2(0, score)

\* a plausible slip: the limit read from the template instead of the configuration
AnalyzeIssuesTemplateLimit(cfg, title, breakdown) ==
    [issues |->
        (IF 10 * breakdown.keywordPlacement < 7 * SubScale
         THEN <<Issue("keywordsPlacedLate", <<>>)>> ELSE <<>>)
        \o (IF 10 * breakdown.readability < 7 * SubScale
            THEN <<Issue("lowReadability", <<>>)>> ELSE <<>>)
        \o (IF 10 * breakdown.length < 8 * SubScale
            THEN (IF Len(title) > cfg.template.max_length
                  THEN <<Issue("titleTooLong", <<>>)>>
                  ELSE <<Issue("titleTooShort", <<>>)>>)
            ELSE <<>>)
        \o (IF 10 * breakdown.uniqueness < 8 * SubScale
            THEN <<Issue("commonPhrases", <<>>)>> ELSE <<>>),
     suggestions |-> <<>>]

AnalyzeIssues(cfg, title, breakdown) ==
    LET placementLow == 10 * breakdown.keywordPlacement < 7 * SubScale
        readabilityLow == 10 * breakdown.readability < 7 * SubScale
        lengthLow == 10 * breakdown.length < 8 * SubScale
        tooLong == Len(title) > cfg.maxLength
        uniquenessLow == 10 * breakdown.uniqueness < 8 * SubScale
    IN [issues |->
            (IF placementLow THEN <<Issue("keywordsPlacedLate", <<>>)>> ELSE <<>>)
            \o (IF readabilityLow THEN <<Issue("lowReadability", <<>>)>> ELSE <<>>)
            \o (IF lengthLow
                THEN (IF tooLong THEN <<Issue("titleTooLong", <<>>)>>
                      ELSE <<Issue("titleTooShort", <<>>)>>)
                ELSE <<>>)
            \o (IF uniquenessLow THEN <<Issue("commonPhrases", <<>>)>> ELSE <<>>),
        suggestions |->
            (IF placementLow THEN <<"moveKeywordsForward">> ELSE <<>>)
            \o (IF readabilityLow THEN <<"checkSpacing">> ELSE <<>>)
            \o (IF lengthLow
                THEN (IF tooLong THEN <<"shorten">> ELSE <<"addFeatures">>)
                ELSE <<>>)
            \o (IF uniquenessLow THEN <<"stressUniqueFeatures">> ELSE <<>>)]

\* overall is Math.round(mean * 100) / 100, kept as a count of 1/100
EvaluateTitle(cfg, title) ==
    LET breakdown == [keywordPlacement |-> EvaluateKeywordPlacement(cfg, title),
                      readability |-> EvaluateReadability(title),
                      length |-> EvaluateLengthScore(cfg, title),
                      uniqueness |-> EvaluateUniqueness(title)]
        sum == breakdown.keywordPlacement + breakdown.readability
               + breakdown.length + breakdown.uniqueness
        analysis == AnalyzeIssues(cfg, title, breakdown)
    IN [overall |-> RoundDiv(sum * 100, 4 * SubScale),
        breakdown |-> breakdown,
        issues |-> analysis.issues,
        suggestions |-> analysis.suggestions]

-----------------------------------------------------------------------------
(* TitleGenerator.generateTitles *)

\* { ...title, ...this.evaluateTitle(title.title_text) }: the fields of the
\* evaluation are laid over the title's; both have issues, only the title has score
ScoredTitle(title, quality) ==
    [title_text |-> title.title_text,
     score |-> title.score,
     spacing_variants |-> title.spacing_variants,
     overall |-> quality.overall,
     breakdown |-> quality.breakdown,
     issues |-> quality.issues,
     suggestions |-> quality.suggestions]

NoError == [parts |-> <<>>]

GenerateTitles(cfg, components, keywords) ==
    LET validation == ValidateInput(cfg, components, keywords)
        selectedKeywords == SelectAndSortKeywords(cfg, keywords, components.keywords)
        titleCandidates == GenerateTitleCandidates(components, selectedKeywords)
        processedTitles == [k \in 1..Len(titleCandidates) |->
                               PostProcessTitle(cfg, titleCandidates[k])]
        scoredTitles == [k \in 1..Len(processedTitles) |->
                            ScoredTitle(processedTitles[k],
                                        EvaluateTitle(cfg, processedTitles[k].title_text))]
    IN IF ~validation.isValid
       THEN [threw |-> TRUE, error |-> ThrownError(validation.errors), titles |-> <<>>]
       ELSE [threw |-> FALSE, error |-> NoError,
             titles |-> Slice0(SortByScoreDesc(scoredTitles), 10)]

-----------------------------------------------------------------------------
(* generateTitles: inputs and the operation *)

Usb == <<"u", "s", "b">>

UsbCapital == <<"U", "s", "b">>

Keiseu == <<"ke", "i", "seu">>

Pon == <<"pon">>

Halin == <<"hal", "in">>

Gabang == <<"ga", "bang">>

Yeo == <<"yeo">>

Yeoreum == <<"yeo", "reum">>

FiveG == <<"5", "g">>

SaleUpper == <<"S", "A", "L", "E">>

SaleLower == <<"s", "a", "l", "e">>

\* a catalog entry: only term and score are read by the generator
CatalogKw(term, score) == [Kw(term, 100, 50, NoWeight, <<>>) EXCEPT !.score = score]

Catalogs ==
    {<<CatalogKw(UsbCapital, 4000), CatalogKw(Keiseu, 9000), CatalogKw(Halin, 5578)>>,
     <<CatalogKw(Keiseu, NoScore), CatalogKw(Usb, 7000), CatalogKw(Halin, 0)>>}

\* how many keyword terms a caller requests at most
MaxRequested == 3

RequestedTerms == {Usb, Keiseu, Pon, Halin}

Components(category, demographic, keywords, features, usage) ==
    [category |-> category, demographic |-> demographic, keywords |-> keywords,
     features |-> features, usage |-> usage]

\* category, demographic, features, usage; an absent one is the empty string or list
ComponentChoices ==
    {<<EmptyStr, EmptyStr, <<>>, EmptyStr>>,
     <<Gabang, EmptyStr, <<>>, EmptyStr>>,
     <<EmptyStr, EmptyStr, <<FiveG, UsbCapital>>, Yeoreum>>,
     <<Gabang, Yeo, <<SaleUpper, FiveG>>, Yeoreum>>,
     <<Halin, EmptyStr, <<Halin>>, SaleLower>>}

\* the title length limit the configurations are built around
MaxTitleLength == 10

TitleConfig(maxLength, maxKeywords, stopwords, removeDuplicates, variants, required) ==
    [template |-> [required_components |-> required, max_length |-> 60],
     stopwords |-> stopwords,
     maxLength |-> maxLength,
     minKeywords |-> 1,
     maxKeywords |-> maxKeywords,
     removeDuplicates |-> removeDuplicates,
     generateSpacingVariants |-> variants]

TitleConfigs ==
    {TitleConfig(MaxTitleLength, 3, <<Halin, SaleLower>>, TRUE, TRUE, {"keywords"}),
     TitleConfig(2 * MaxTitleLength, 2, <<>>, FALSE, FALSE, {"keywords"}),
     TitleConfig(MaxTitleLength, 3, <<SaleUpper>>, FALSE, TRUE, {})}

NotCalled == [called |-> FALSE, threw |-> FALSE, error |-> NoError, titles |-> <<>>]

TitleInit ==
    /\ tgConfig \in TitleConfigs
    /\ tgCatalog \in Catalogs
    /\ \E c \in ComponentChoices, req \in SeqsUpTo(RequestedTerms, MaxRequested) :
          tgComponents = Components(c[1], c[2], req, c[3], c[4])
    /\ tgResult = NotCalled

GenerateTitlesCall ==
    /\ ~tgResult.called
    /\ tgResult' = [called |-> TRUE] @@ GenerateTitles(tgConfig, tgComponents, tgCatalog)
    /\ UNCHANGED <<extVars, tgConfig, tgComponents, tgCatalog, scorerVars, spacingVars,
                    recommenderVars>>

TitleNext == GenerateTitlesCall

-----------------------------------------------------------------------------
(* generateSpacingVariants: inputs and the operation *)

\* the characters of the strings passed: both kinds of white space, a Korean
\* syllable, a Latin letter and a digit
SpacingChars == {" ", "\t", "ga", "a", "5"}

\* the longest string passed
MaxSpacingLen == 4

NotSpaced == [called |-> FALSE, spaced |-> EmptyStr, unspaced |-> EmptyStr]

SpacingInit ==
    /\ svTitle \in SeqsUpTo(SpacingChars, MaxSpacingLen)
    /\ svResult = NotSpaced

GenerateSpacingVariantsCall ==
    /\ ~svResult.called
    /\ svResult' = [called |-> TRUE] @@ GenerateSpacingVariants(svTitle)
    /\ UNCHANGED <<extVars, svTitle, scorerVars, titleVars, recommenderVars>>

SpacingNext == GenerateSpacingVariantsCall

-----------------------------------------------------------------------------
(* Exact fractions: what the recommender computes in floating point *)

RECURSIVE Gcd(_, _)
Gcd(a, b) == IF b = 0 THEN a ELSE Gcd(b, a % b)

\* the fraction n/d in lowest terms, d > 0 and n >= 0
Rat(n, d) == LET g == Gcd(n, d) IN [num |-> n \div g, den |-> d \div g]

RatZero == Rat(0, 1)

RatOne == Rat(1, 1)

RatAdd(a, b) == Rat(a.num * b.den + b.num * a.den, a.den * b.den)

RatMul(a, b) == Rat(a.num * b.num, a.den * b.den)

RatLess(a, b) == a.num * b.den < b.num * a.den

RatMin(a, b) == IF RatLess(b, a) THEN b ELSE a

\* Math.round(x * 100)
RoundPercent(x) == (200 * x.num + x.den) \div (2 * x.den)

-----------------------------------------------------------------------------
(* CategoryRecommender *)

\* weight in tenths, confidence in units; a pattern is a sequence of character
\* classes, one per position ('nam[seong ja]' has two); an attribute is kept
\* as its name
CategoryRule(categoryName, keywords, patterns, weight, confidence, attributes) ==
    [categoryName |-> categoryName, keywords |-> keywords, patterns |-> patterns,
     weight |-> weight, confidence |-> confidence, attributes |-> attributes]

Lit(str) == [k \in 1..Len(str) |-> {str[k]}]

\* new RegExp(pattern, 'gi').test(text)
PatternTest(pattern, text) ==
    \E o \in 0..(Len(text) - Len(pattern)) :
        \A k \in 1..Len(pattern) :
            LowerChar(text[o + k]) \in {LowerChar(c) : c \in pattern[k]}

\* recommendCategories called without components
NoComponents == [absent |-> TRUE]

ExtractAdditionalTexts(components) ==
    IF "absent" \in DOMAIN components THEN <<>>
    ELSE (IF Len(components.category) > 0
          THEN <<ToLowerCase(components.category)>> ELSE <<>>)
         \o (IF Len(components.demographic) > 0
             THEN <<ToLowerCase(components.demographic)>> ELSE <<>>)
         \o [k \in 1..Len(components.features) |-> ToLowerCase(components.features[k])]
         \o (IF Len(components.usage) > 0
             THEN <<ToLowerCase(components.usage)>> ELSE <<>>)

GenerateReasons(rule, keywordMatches, patternMatches) ==
    <<[kind |-> "ruleReason", detail |-> <<rule.categoryName>>]>>
    \o (IF Len(keywordMatches) > 0
        THEN <<[kind |-> "keywordsMatched", detail |-> keywordMatches]>> ELSE <<>>)
    \o (IF Len(patternMatches) > 0
        THEN <<[kind |-> "patternsMatched", detail |-> <<>>]>> ELSE <<>>)

\* a plausible slip: a score of exactly 70 counted as high
FrequencySumInclusive(keywordMatches, keywords) ==
    LET Counts(keyword) ==
            /\ keyword.score >= 70 * 100
            /\ \E m \in 1..Len(keywordMatches) :
                  Includes(ToLowerCase(keyword.term), ToLowerCase(keywordMatches[m]))
        counted == SelectSeq(keywords, Counts)
    IN SeqSum([k \in 1..Len(counted) |-> counted[k].score])

\* the sum over highScoreKeywords, of which frequencyScore is a fraction
FrequencySum(keywordMatches, keywords) ==
    LET Counts(keyword) ==
            /\ keyword.score > 70 * 100
            /\ \E m \in 1..Len(keywordMatches) :
                  Includes(ToLowerCase(keyword.term), ToLowerCase(keywordMatches[m]))
        counted == SelectSeq(keywords, Counts)
    IN SeqSum([k \in 1..Len(counted) |-> counted[k].score])

FrequencyScore(keywordMatches, keywords) ==
    RatMin(RatOne,
           Rat(FrequencySum(keywordMatches, keywords), 100 * 100 * Max2(1, Len(keywords))))

EvaluateRule(rule, texts, keywords) ==
    LET allText == Join(texts, Sp)
        KeywordHit(keyword) == Includes(allText, ToLowerCase(keyword))
        keywordMatches == SelectSeq(rule.keywords, KeywordHit)
        keywordScore == IF Len(rule.keywords) > 0
                        THEN Rat(Len(keywordMatches), Len(rule.keywords)) ELSE RatZero
        PatternHit(pattern) == PatternTest(pattern, allText)
        patternMatches == SelectSeq(rule.patterns, PatternHit)
        patternScore == IF Len(rule.patterns) > 0
                        THEN Rat(Len(patternMatches), Len(rule.patterns)) ELSE RatZero
        frequencyScore == FrequencyScore(keywordMatches, keywords)
        finalScore ==
            RatMul(RatMul(RatAdd(RatAdd(RatMul(keywordScore, Rat(4, 10)),
                                        RatMul(patternScore, Rat(3, 10))),
                                 RatMul(frequencyScore, Rat(3, 10))),
                          Rat(rule.weight, WeightScale)),
                   Rat(rule.confidence, 100))
    IN [suggestion |-> [name |-> rule.categoryName,
                        reasons |-> GenerateReasons(rule, keywordMatches, patternMatches),
                        confidence |-> RoundPercent(finalScore)],
        matchedRules |-> <<rule>>,
        keywordMatches |-> keywordMatches,
        patternMatches |-> patternMatches,
        scoreBreakdown |-> [keywordScore |-> keywordScore,
                            patternScore |-> patternScore,
                            frequencyScore |-> frequencyScore,
                            finalScore |-> finalScore]]

\* a plausible slip: every rule kept, whatever its finalScore
CalculateCategoryScoresAll(table, texts, keywords) ==
    [k \in 1..Len(table) |-> EvaluateRule(table[k], texts, keywords)]

CalculateCategoryScores(table, texts, keywords) ==
    LET details == [k \in 1..Len(table) |-> EvaluateRule(table[k], texts, keywords)]
        Scored(detail) == RatLess(RatZero, detail.scoreBreakdown.finalScore)
    IN SelectSeq(details, Scored)

\* where x goes in a list sorted by descending finalScore (the sort is stable)
InsertByFinalScore(sorted, x) ==
    LET k == Cardinality({j \in 1..Len(sorted) :
                 ~RatLess(sorted[j].scoreBreakdown.finalScore, x.scoreBreakdown.finalScore)})
    IN SubSeq(sorted, 1, k) \o <<x>> \o SubSeq(sorted, k + 1, Len(sorted))

\* a plausible slip: the list left in rule order
SortByFinalScoreSkipped(list) == list

\* categoryScores.sort((a, b) => b.scoreBreakdown.finalScore - a.scoreBreakdown.finalScore)
RECURSIVE SortByFinalScoreDesc(_)
SortByFinalScoreDesc(list) ==
    IF Len(list) = 0 THEN <<>>
    ELSE InsertByFinalScore(SortByFinalScoreDesc(SubSeq(list, 1, Len(list) - 1)),
                            list[Len(list)])

\* a plausible slip: the keyword terms left out of the analysed texts
RecommendCategoriesOfComponents(table, keywords, components, maxSuggestions) ==
    Slice0(SortByFinalScoreDesc(
               CalculateCategoryScores(table, ExtractAdditionalTexts(components), keywords)),
           maxSuggestions)

RecommendCategoriesOf(table, keywords, components, maxSuggestions) ==
    LET keywordTexts == [k \in 1..Len(keywords) |-> ToLowerCase(keywords[k].term)]
        allTexts == keywordTexts \o ExtractAdditionalTexts(components)
        categoryScores == CalculateCategoryScores(table, allTexts, keywords)
    IN Slice0(SortByFinalScoreDesc(categoryScores), maxSuggestions)

\* this.rules.findIndex(r => r.categoryName === name), counted from 1; 0 when absent
FindIndex(table, name) ==
    LET hits == {k \in 1..Len(table) : table[k].categoryName = name}
    IN IF hits = {} THEN 0 ELSE CHOOSE k \in hits : \A j \in hits : k <= j

\* a plausible slip: the rule always pushed
RulesAfterAddPushed(table, rule) == Append(table, rule)

RulesAfterAdd(table, rule) ==
    LET existingIndex == FindIndex(table, rule.categoryName)
    IN IF existingIndex > 0 THEN [table EXCEPT ![existingIndex] = rule]
       ELSE Append(table, rule)

RulesAfterRemove(table, name) ==
    LET index == FindIndex(table, name)
    IN IF index > 0 THEN SubSeq(table, 1, index - 1) \o SubSeq(table, index + 1, Len(table))
       ELSE table

\* this.rules.find(...) ; rule ? rule.attributes : []
GetCategoryChecklistOf(table, categoryName) ==
    LET hits == {k \in 1..Len(table) :
                    ToLowerCase(table[k].categoryName) = ToLowerCase(categoryName)}
    IN IF hits = {} THEN <<>>
       ELSE table[CHOOSE k \in hits : \A j \in hits : k <= j].attributes

SearchCategoriesOf(table, query) ==
    LET lowerQuery == ToLowerCase(query)
        Matches(rule) ==
            \/ Includes(ToLowerCase(rule.categoryName), lowerQuery)
            \/ \E k \in 1..Len(rule.keywords) : Includes(rule.keywords[k], lowerQuery)
    IN SelectSeq(table, Matches)

-----------------------------------------------------------------------------
(* CategoryRecommender: inputs and the operations *)

Syeocheu == <<"syeo", "cheu">>

\* the first of the default rules
MenswearRule ==
    CategoryRule(<<"nam", "seong", "ui", "ryu">>,
                 <<<<"nam", "seong">>, <<"nam", "ja">>, <<"maen", "jeu">>, Syeocheu,
                   <<"ba", "ji">>, <<"jeong", "jang">>, <<"kae", "ju", "eol">>>>,
                 <<<<{"nam"}, {"seong", "ja"}>>, Lit(<<"maen", "jeu">>),
                   Lit(<<"jeong", "jang">>), Lit(Syeocheu)>>,
                 10, 85, <<"saijeu", "sojae", "saeksang", "sijeun">>)

PhoneName == <<"seu", "ma", "teu", "pon">>

PhoneRule ==
    CategoryRule(PhoneName, <<Pon, UsbCapital>>, <<Lit(Pon)>>, 10, 90,
                 <<"beuraendeu", "model">>)

\* a rule of the same name, half the weight, no patterns
PhoneRuleWeak == CategoryRule(PhoneName, <<Pon>>, <<>>, 5, 40, <<"model">>)

\* a rule of weight 0
ZeroRule == CategoryRule(<<"yeong">>, <<Pon>>, <<Lit(Pon)>>, 0, 100, <<>>)

CaseRule == CategoryRule(Keiseu, <<Keiseu>>, <<Lit(Keiseu)>>, 10, 100, <<"sojae">>)

RuleUniverse == {MenswearRule, PhoneRule, PhoneRuleWeak, ZeroRule, CaseRule}

RuleNames == {r.categoryName : r \in RuleUniverse}

\* the most rules a table holds
MaxRules == 3

DistinctNames(table) ==
    \A j, k \in 1..Len(table) : j # k => table[j].categoryName # table[k].categoryName

\* the tables addRule and removeRule can build from rules of distinct names
RuleTables == {t \in SeqsUpTo(RuleUniverse, MaxRules) : DistinctNames(t)}

\* constructor(customRules)
InitialTables == {<<MenswearRule>>, <<>>, <<ZeroRule, PhoneRuleWeak, CaseRule>>}

KwShirt == CatalogKw(<<"nam", "seong">> \o Syeocheu, 9000)

KwPhoneCase == CatalogKw(Pon \o Keiseu, 10000)

\* a score of exactly 70
KwPhone == CatalogKw(Pon, 7000)

KwUsb == CatalogKw(UsbCapital, NoScore)

RecKeywordUniverse == {KwShirt, KwPhoneCase, KwPhone, KwUsb}

\* the longest keyword list passed to recommendCategories
MaxRecKeywords == 2

RecComponentChoices ==
    {NoComponents, Components(Keiseu, EmptyStr, <<>>, <<UsbCapital>>, EmptyStr)}

\* maxSuggestions: number = 3
DefaultMaxSuggestions == 3

SuggestionLimits == {0, 1, DefaultMaxSuggestions}

NoRecCall == [op |-> "none"]

RulesInit ==
    /\ rules \in InitialTables
    /\ crLast = NoRecCall

AddRule(rule) ==
    /\ Len(RulesAfterAdd(rules, rule)) <= MaxRules
    /\ rules' = RulesAfterAdd(rules, rule)
    /\ crLast' = [op |-> "addRule", arg |-> rule]
    /\ UNCHANGED <<extVars, scorerVars, titleVars, spacingVars>>

RemoveRule(name) ==
    /\ rules' = RulesAfterRemove(rules, name)
    /\ crLast' = [op |-> "removeRule", arg |-> name, result |-> FindIndex(rules, name) > 0]
    /\ UNCHANGED <<extVars, scorerVars, titleVars, spacingVars>>

RulesNext ==
    \/ \E rule \in RuleUniverse : AddRule(rule)
    \/ \E name \in RuleNames : RemoveRule(name)

RecommendInit ==
    /\ rules \in RuleTables
    /\ crLast = NoRecCall

RecommendCategories(keywords, components, maxSuggestions) ==
    /\ crLast.op = "none"
    /\ crLast' = [op |-> "recommendCategories",
                  arg |-> [keywords |-> keywords, components |-> components,
                           maxSuggestions |-> maxSuggestions],
                  result |-> RecommendCategoriesOf(rules, keywords, components,
                                                   maxSuggestions)]
    /\ UNCHANGED <<extVars, rules, scorerVars, titleVars, spacingVars>>

RecommendNext ==
    \E keywords \in SeqsUpTo(RecKeywordUniverse, MaxRecKeywords),
       components \in RecComponentChoices,
       maxSuggestions \in SuggestionLimits :
        RecommendCategories(keywords, components, maxSuggestions)

-----------------------------------------------------------------------------
(* CategoryRecommender: the rule table and the arrays a caller holds *)

\* two rules whose names differ in case only
UsbRule == CategoryRule(Usb, <<Usb>>, <<Lit(Usb)>>, 10, 80, <<"yongryang">>)

UsbCapitalRule ==
    CategoryRule(UsbCapital, <<UsbCapital>>, <<>>, 8, 70, <<"gyugyeok", "saeksang">>)

TableRules == {UsbRule, UsbCapitalRule, CaseRule, PhoneRule}

TableNames == {r.categoryName : r \in TableRules} \cup {SaleUpper}

\* the rules a caller puts into an array it holds
CallerRules == {CaseRule}

NoArray == [called |-> FALSE, array |-> <<>>]

\* getDefaultRules(), of which the model keeps the first rule
GetDefaultRules == <<MenswearRule>>

\* constructor(customRules?): this.rules = customRules || this.getDefaultRules()
TableInit ==
    /\ customRulesShared \in BOOLEAN
    /\ rules \in (IF customRulesShared THEN InitialTables ELSE {GetDefaultRules})
    /\ returnedRules = NoArray
    /\ crLast = NoRecCall

GetCategoryChecklist(categoryName) ==
    /\ crLast' = [op |-> "getCategoryChecklist", arg |-> categoryName,
                  result |-> GetCategoryChecklistOf(rules, categoryName)]
    /\ UNCHANGED <<rules, aliasVars, scorerVars, titleVars, spacingVars, serviceVars>>

SearchCategories(query) ==
    /\ crLast' = [op |-> "searchCategories", arg |-> query,
                  result |-> SearchCategoriesOf(rules, query)]
    /\ UNCHANGED <<rules, aliasVars, scorerVars, titleVars, spacingVars, serviceVars>>

\* return [...this.rules]: a new array of the same rules
GetRules ==
    /\ returnedRules' = [called |-> TRUE, array |-> rules]
    /\ crLast' = [op |-> "getRules", result |-> rules]
    /\ UNCHANGED <<rules, customRulesShared, scorerVars, titleVars, spacingVars,
                   serviceVars>>

\* what a caller's push or pop makes of an array
CallerChanges(array) ==
    {Append(array, rule) : rule \in CallerRules}
        \cup (IF array = <<>> THEN {} ELSE {SubSeq(array, 1, Len(array) - 1)})

\* the caller changes the array getRules returned
ChangeReturnedArray ==
    /\ returnedRules.called
    /\ \E array \in CallerChanges(returnedRules.array) :
        /\ Len(array) <= MaxRules
        /\ returnedRules' = [returnedRules EXCEPT !.array = array]
    /\ crLast' = [op |-> "callerChange", arg |-> "returned"]
    /\ UNCHANGED <<rules, customRulesShared, scorerVars, titleVars, spacingVars,
                   serviceVars>>

\* the caller changes the array it passed to the constructor, which is the
\* array this.rules refers to
ChangeConstructorArray ==
    /\ customRulesShared
    /\ \E array \in CallerChanges(rules) :
        /\ Len(array) <= MaxRules
        /\ rules' = array
    /\ crLast' = [op |-> "callerChange", arg |-> "constructor"]
    /\ UNCHANGED <<returnedRules, customRulesShared, scorerVars, titleVars, spacingVars,
                   serviceVars>>

TableNext ==
    \/ \E rule \in TableRules : AddRule(rule)
    \/ \E name \in TableNames : RemoveRule(name)
    \/ RecommendNext
    \/ \E name \in TableNames : GetCategoryChecklist(name)
    \/ \E query \in {Usb, Pon} : SearchCategories(query)
    \/ GetRules
    \/ ChangeReturnedArray
    \/ ChangeConstructorArray

ChecklistInit ==
    /\ rules \in InitialTables
    /\ crLast = NoRecCall

ChecklistNext ==
    \/ \E rule \in TableRules : AddRule(rule)
    \/ \E name \in TableNames : RemoveRule(name)
    \/ \E name \in TableNames : GetCategoryChecklist(name)

-----------------------------------------------------------------------------
(* KeywordRecommender: its scorer is the KeywordScorer of weights, groupStats *)

\* what Math.random() gives, in tenths
RandomValues == {0, 2, 9}

\* keyword.tags.forEach(tag => usedTags.add(tag))
TagSet(keyword) == {keyword.tags[k] : k \in 1..Len(keyword.tags)}

\* Array.from(keywordTags).some(tag => usedTags.has(tag))
TagOverlap(keyword, usedTags) == TagSet(keyword) \cap usedTags # {}

\* the random gate is reached: neither of the first two disjuncts holds
GateReached(keyword, usedTags) ==
    ~(keyword.score > 80 * 100) /\ TagOverlap(keyword, usedTags)

\* a plausible slip: a keyword with one tag of its own passes without the gate
ShouldRecommendNewTag(keyword, usedTags, random, diversityFactor) ==
    \/ keyword.score > 80 * 100
    \/ TagSet(keyword) \ usedTags # {}
    \/ random > diversityFactor

\* Math.random() > diversityFactor, both in tenths
ShouldRecommend(keyword, usedTags, random, diversityFactor) ==
    \/ keyword.score > 80 * 100
    \/ ~TagOverlap(keyword, usedTags)
    \/ random > diversityFactor

\* generateRecommendationReason: calculateScore with the cached statistics
GenerateRecommendationReason(keyword, cached, w) ==
    LET score == CalcScore(keyword, NoStats, cached, w).score
    IN IF score >= 90 * 100 THEN "top"
       ELSE IF score >= 70 * 100 THEN "high"
       ELSE IF score >= 50 * 100 THEN "moderate"
       ELSE "low"

\* the for loop from position i on, as the set of its possible outcomes: where
\* the loop reaches Math.random(), every value in RandomValues is one outcome
RECURSIVE RecommendLoop(_, _, _, _, _, _, _)
RecommendLoop(sortedKeywords, i, count, diversityFactor, out, cached, w) ==
    IF i > Len(sortedKeywords) \/ Len(out.recommendations) >= count THEN {out}
    ELSE LET keyword == sortedKeywords[i]
             reached == GateReached(keyword, out.usedTags)
             Seen(random) ==
                 [out EXCEPT !.visited = @ \cup {i},
                             !.draws = IF reached THEN @ @@ (i :> random) ELSE @]
             Admitted(random) ==
                 [Seen(random) EXCEPT
                    !.recommendations =
                        Append(@, [keyword |-> keyword, score |-> keyword.score,
                                   position |-> i,
                                   reason |-> GenerateRecommendationReason(
                                                  keyword, cached, w)]),
                    !.usedTags = @ \cup TagSet(keyword)]
         IN UNION {RecommendLoop(sortedKeywords, i + 1, count, diversityFactor,
                                 IF ShouldRecommend(keyword, out.usedTags, random,
                                                    diversityFactor)
                                 THEN Admitted(random) ELSE Seen(random),
                                 cached, w) :
                      random \in IF reached THEN RandomValues ELSE {0}}

\* steps 1 and 2 of recommend: calculateScores, then sort by descending score
SortedKeywords(keywords, cached, w) == SortByScoreDesc(CalcScores(keywords, cached, w))

\* step 3 of recommend: every outcome the random source allows
RecommendOf(sortedKeywords, count, diversityFactor, cached, w) ==
    RecommendLoop(sortedKeywords, 1, count, diversityFactor,
                  [recommendations |-> <<>>, usedTags |-> {}, draws |-> <<>>,
                   visited |-> {}],
                  cached, w)

-----------------------------------------------------------------------------
(* KeywordRecommender: inputs and the operation *)

KwBrand == Kw("brand", 500, 20, NoWeight, <<"brand">>)

\* one tag in common with KwBrand, one of its own
KwBrandSeason == Kw("brandseason", 500, 85, NoWeight, <<"brand", "seasonal">>)

KwBrandLow == Kw("brandlow", 1, 85, NoWeight, <<"brand">>)

RecommendUniverse == {KwBrand, KwBrandSeason, KwBrandLow, KwCase, KwSmartphone}

\* the longest list passed to recommend
MaxRecommend == 3

\* count: number = 10
DefaultCount == 10

RecommendCounts == {1, 2, DefaultCount}

\* diversityFactor: number = 0.3, in tenths
DefaultDiversity == 3

DiversityFactors == {0, DefaultDiversity}

NoRecommendation == [op |-> "none"]

KeywordRecommenderInit ==
    /\ ScorerInit
    /\ krLast = NoRecommendation

Recommend(keywords, count, diversityFactor) ==
    /\ krLast.op = "none"
    /\ LET sortedKeywords == SortedKeywords(keywords, groupStats, weights)
       IN \E out \in RecommendOf(sortedKeywords, count, diversityFactor,
                                  GroupStatsAfter(keywords, groupStats), weights) :
            krLast' = [op |-> "recommend", keywords |-> keywords, count |-> count,
                       diversityFactor |-> diversityFactor, draws |-> out.draws,
                       sorted |-> sortedKeywords, visited |-> out.visited,
                       result |-> out.recommendations]
    /\ groupStats' = GroupStatsAfter(keywords, groupStats)
    /\ UNCHANGED <<weights, last, titleVars, spacingVars, recommenderVars, aliasVars,
                   storeVars, rateVars, factoryVars>>

KeywordRecommenderNext ==
    \E keywords \in SeqsUpTo(RecommendUniverse, MaxRecommend),
       count \in RecommendCounts, diversityFactor \in DiversityFactors :
        Recommend(keywords, count, diversityFactor)

-----------------------------------------------------------------------------
(* LocalStorageAdapter: the keyword store *)

\* term.trim().length > 100
MaxTermLength == 100

MinCompetition == 0

MaxCompetition == 100

\* validateKeywordTerm: the field of the ValidationError, or NoField
NoField == "none"

ValidateKeywordTerm(term) ==
    IF Len(term) = 0 \/ Len(Trim(term)) = 0 THEN "term"
    ELSE IF Len(Trim(term)) > MaxTermLength THEN "term"
    ELSE NoField

\* validateKeywordData: an undefined weight is NoWeight (volumes are integers)
ValidateKeywordData(data) ==
    IF ValidateKeywordTerm(data.term) # NoField THEN "term"
    ELSE IF data.volume < 0 THEN "volume"
    ELSE IF data.competition < MinCompetition \/ data.competition > MaxCompetition
         THEN "competition"
    ELSE IF data.weight # NoWeight /\ (data.weight < 0 \/ data.weight > 1) THEN "weight"
    ELSE NoField

\* keywords.find(k => k.term.toLowerCase() === keywordData.term.toLowerCase())
ExistingKeyword(keywords, term) ==
    \E k \in 1..Len(keywords) : ToLowerCase(keywords[k].term) = ToLowerCase(term)

\* keywords.findIndex(keyword => keyword.id === id), 0 for -1
KeywordIndex(keywords, id) ==
    LET hits == {k \in 1..Len(keywords) : keywords[k].id = id}
    IN IF hits = {} THEN 0 ELSE CHOOSE k \in hits : \A j \in hits : k <= j

\* keywords.find(k => k.id !== id && k.term.toLowerCase() === term.toLowerCase())
DuplicateKeyword(keywords, id, term) ==
    \E k \in 1..Len(keywords) :
        keywords[k].id # id /\ ToLowerCase(keywords[k].term) = ToLowerCase(term)

\* {...keywordData, id, created_at, updated_at}
NewKeyword(keywordData, id, now) ==
    [id |-> id, term |-> keywordData.term, volume |-> keywordData.volume,
     competition |-> keywordData.competition, weight |-> keywordData.weight,
     created_at |-> now, updated_at |-> now]

\* {...keywords[keywordIndex], ...updates, updated_at}
UpdatedKeyword(keyword, updates, now) ==
    [f \in DOMAIN keyword \cup DOMAIN updates |->
        IF f = "updated_at" THEN now
        ELSE IF f \in DOMAIN updates THEN updates[f]
        ELSE keyword[f]]

\* what createKeyword throws or returns, and what it leaves stored
CreateKeywordOf(keywords, keywordData, id, now) ==
    IF ValidateKeywordData(keywordData) # NoField
    THEN [outcome |-> "ValidationError", field |-> ValidateKeywordData(keywordData),
          stored |-> keywords]
    ELSE IF ExistingKeyword(keywords, keywordData.term)
    THEN [outcome |-> "ValidationError", field |-> "term", stored |-> keywords]
    ELSE [outcome |-> "created", field |-> NoField,
          stored |-> Append(keywords, NewKeyword(keywordData, id, now))]

\* a plausible slip: the keyword is written before the duplicate check throws
UpdateKeywordOfSavedFirst(keywords, id, updates, now) ==
    LET keywordIndex == KeywordIndex(keywords, id)
        saved == [keywords EXCEPT
                     ![keywordIndex] =
                         UpdatedKeyword(keywords[keywordIndex], updates, now)]
    IN IF keywordIndex = 0
       THEN [outcome |-> "NotFoundError", field |-> NoField, stored |-> keywords]
       ELSE IF "term" \in DOMAIN updates /\ ValidateKeywordTerm(updates.term) # NoField
       THEN [outcome |-> "ValidationError", field |-> "term", stored |-> keywords]
       ELSE IF "term" \in DOMAIN updates /\ DuplicateKeyword(keywords, id, updates.term)
       THEN [outcome |-> "ValidationError", field |-> "term", stored |-> saved]
       ELSE [outcome |-> "updated", field |-> NoField, stored |-> saved]

\* what updateKeyword throws or returns, and what it leaves stored
UpdateKeywordOf(keywords, id, updates, now) ==
    LET keywordIndex == KeywordIndex(keywords, id)
    IN IF keywordIndex = 0
       THEN [outcome |-> "NotFoundError", field |-> NoField, stored |-> keywords]
       ELSE IF "term" \in DOMAIN updates /\ ValidateKeywordTerm(updates.term) # NoField
       THEN [outcome |-> "ValidationError", field |-> "term", stored |-> keywords]
       ELSE IF "term" \in DOMAIN updates /\ DuplicateKeyword(keywords, id, updates.term)
       THEN [outcome |-> "ValidationError", field |-> "term", stored |-> keywords]
       ELSE [outcome |-> "updated", field |-> NoField,
             stored |-> [keywords EXCEPT
                            ![keywordIndex] =
                                UpdatedKeyword(keywords[keywordIndex], updates, now)]]

\* what deleteKeyword returns, and what it leaves stored
DeleteKeywordOf(keywords, id) ==
    LET keywordIndex == KeywordIndex(keywords, id)
    IN IF keywordIndex = 0
       THEN [outcome |-> "false", field |-> NoField, stored |-> keywords]
       ELSE [outcome |-> "true", field |-> NoField,
             stored |-> SubSeq(keywords, 1, keywordIndex - 1)
                            \o SubSeq(keywords, keywordIndex + 1, Len(keywords))]

-----------------------------------------------------------------------------
(* LocalStorageAdapter: inputs and the operations *)

LongTerm == [k \in 1..(MaxTermLength + 1) |-> "a"]

StoreTerms == {Usb, UsbCapital, Keiseu, EmptyStr, <<" ">>, LongTerm}

KeywordData(term, volume, competition, weight) ==
    [term |-> term, volume |-> volume, competition |-> competition, weight |-> weight]

CreateInputs ==
    {KeywordData(term, 500, 20, NoWeight) : term \in StoreTerms}
        \cup {KeywordData(Keiseu, 500, MaxCompetition + 50, NoWeight),
              KeywordData(Keiseu, 500, MinCompetition - 5, NoWeight),
              KeywordData(Keiseu, 0 - 5, MaxCompetition, NoWeight),
              KeywordData(Keiseu, 0, MinCompetition, 2)}

\* the writes the model follows
MaxWrites == 4

\* the ids a caller names
StoreIds == 1..3

\* Partial<Keyword>
UpdateInputs ==
    {[term |-> term] : term \in {UsbCapital, Keiseu, EmptyStr, LongTerm}}
        \cup {[competition |-> MaxCompetition + 50], [score |-> 7000], [id |-> 1]}

NoStoreCall == [op |-> "none"]

StoreInit ==
    /\ kwStore = <<>>
    /\ nextId = 0
    /\ clock = 0
    /\ kvLast = NoStoreCall

\* a call that changes the list is a write, and the model follows MaxWrites
CreateKeyword(keywordData) ==
    LET out == CreateKeywordOf(kwStore, keywordData, nextId + 1, clock + 1)
    IN /\ out.stored # kwStore => clock < MaxWrites
       /\ kwStore' = out.stored
       /\ nextId' = IF out.outcome = "created" THEN nextId + 1 ELSE nextId
       /\ clock' = IF out.stored # kwStore THEN clock + 1 ELSE clock
       /\ kvLast' = [op |-> "createKeyword", id |-> 0, arg |-> keywordData,
                     outcome |-> out.outcome, field |-> out.field]
       /\ UNCHANGED <<coreVars, aliasVars, krLast, rateVars, factoryVars>>

UpdateKeyword(id, updates) ==
    LET out == UpdateKeywordOf(kwStore, id, updates, clock + 1)
    IN /\ out.stored # kwStore => clock < MaxWrites
       /\ kwStore' = out.stored
       /\ clock' = IF out.stored # kwStore THEN clock + 1 ELSE clock
       /\ kvLast' = [op |-> "updateKeyword", id |-> id, arg |-> updates,
                     outcome |-> out.outcome, field |-> out.field]
       /\ UNCHANGED <<nextId, coreVars, aliasVars, krLast, rateVars, factoryVars>>

DeleteKeyword(id) ==
    LET out == DeleteKeywordOf(kwStore, id)
    IN /\ out.stored # kwStore => clock < MaxWrites
       /\ kwStore' = out.stored
       /\ clock' = IF out.stored # kwStore THEN clock + 1 ELSE clock
       /\ kvLast' = [op |-> "deleteKeyword", id |-> id, arg |-> [none |-> TRUE],
                     outcome |-> out.outcome, field |-> out.field]
       /\ UNCHANGED <<nextId, coreVars, aliasVars, krLast, rateVars, factoryVars>>

StoreNext ==
    \/ \E keywordData \in CreateInputs : CreateKeyword(keywordData)
    \/ \E id \in StoreIds, updates \in UpdateInputs : UpdateKeyword(id, updates)
    \/ \E id \in StoreIds : DeleteKeyword(id)

-----------------------------------------------------------------------------
(* Contact route: checkRateLimit and POST *)

\* limit.count >= 5
RateLimit == 5

\* 60 * 60 * 1000 ms, in half hours
RateWindow == 2

\* a plausible slip: the sixth request of a window passes too
CheckRateLimitOfSixth(map, ip, time) ==
    IF ip \notin DOMAIN map \/ time > map[ip].resetTime
    THEN [pass |-> TRUE,
          map |-> (ip :> [count |-> 1, resetTime |-> time + RateWindow]) @@ map]
    ELSE IF map[ip].count > RateLimit THEN [pass |-> FALSE, map |-> map]
    ELSE [pass |-> TRUE, map |-> [map EXCEPT ![ip].count = @ + 1]]

\* checkRateLimit(ip): what it returns and what it leaves in rateLimitMap
CheckRateLimitOf(map, ip, time) ==
    IF ip \notin DOMAIN map \/ time > map[ip].resetTime
    THEN [pass |-> TRUE,
          map |-> (ip :> [count |-> 1, resetTime |-> time + RateWindow]) @@ map]
    ELSE IF map[ip].count >= RateLimit THEN [pass |-> FALSE, map |-> map]
    ELSE [pass |-> TRUE, map |-> [map EXCEPT ![ip].count = @ + 1]]

\* the response of POST once checkRateLimit has answered: request.json()
\* throws on a body that does not parse, validateFormData turns an invalid one
\* away, a missing RESEND_API_KEY and an error of resend.emails.send end in 500
PostResponse(pass, body, mail) ==
    IF ~pass THEN [status |-> 429, validated |-> FALSE, sent |-> FALSE]
    ELSE IF body = "unparsable" THEN [status |-> 500, validated |-> FALSE, sent |-> FALSE]
    ELSE IF body = "invalid" THEN [status |-> 400, validated |-> TRUE, sent |-> FALSE]
    ELSE IF mail = "noKey" THEN [status |-> 500, validated |-> TRUE, sent |-> FALSE]
    ELSE IF mail = "error" THEN [status |-> 500, validated |-> TRUE, sent |-> TRUE]
    ELSE [status |-> 200, validated |-> TRUE, sent |-> TRUE]

-----------------------------------------------------------------------------
(* Contact route: inputs and the operations *)

\* x-forwarded-for || x-real-ip || 'unknown'
ClientIps == {"203.0.113.7", "unknown"}

Bodies == {"valid", "invalid"}

MailOutcomes == {"sent", "error"}

\* the half hours the model follows
MaxTime == 3

NonePassed == [ip \in ClientIps |-> [age \in 0..RateWindow |-> 0]]

NoRequest == [op |-> "none"]

RateInit ==
    /\ rateLimitMap = <<>>
    /\ rlNow = 0
    /\ rlPassed = NonePassed
    /\ rlLast = NoRequest

\* checkRateLimit runs before the handler's first await: one step with the
\* response the rest of the handler gives
Post(ip, body, mail) ==
    LET checked == CheckRateLimitOf(rateLimitMap, ip, rlNow)
        response == PostResponse(checked.pass, body, mail)
    IN /\ rateLimitMap' = checked.map
       /\ rlPassed' = IF checked.pass THEN [rlPassed EXCEPT ![ip][0] = @ + 1]
                      ELSE rlPassed
       /\ rlLast' = [op |-> "POST", ip |-> ip, passed |-> checked.pass,
                     status |-> response.status, validated |-> response.validated,
                     sent |-> response.sent]
       /\ UNCHANGED <<rlNow, coreVars, aliasVars, krLast, storeVars, factoryVars>>

\* half an hour passes
Tick ==
    /\ rlNow < MaxTime
    /\ rlNow' = rlNow + 1
    /\ rlPassed' = [ip \in ClientIps |->
                        [age \in 0..RateWindow |->
                            IF age = 0 THEN 0 ELSE rlPassed[ip][age - 1]]]
    /\ UNCHANGED <<rateLimitMap, rlLast, coreVars, aliasVars, krLast, storeVars, factoryVars>>

RateNext ==
    \/ \E ip \in ClientIps, body \in Bodies, mail \in MailOutcomes : Post(ip, body, mail)
    \/ Tick

-----------------------------------------------------------------------------
(* AdapterFactory: getAdapter, createDefaultAdapter, createAdapter.  The calls
   run on one thread and give way to each other at their awaits. *)

MaxCallers == 3

Callers == 1..MaxCallers

NoAdapter == 0

\* a call that has not been made: no local adapter, nothing received
NotStarted == [pc |-> "idle", adapter |-> NoAdapter, received |-> NoAdapter]

NoGetAdapterCalls == [p \in Callers |-> NotStarted]

FactoryInit ==
    /\ currentAdapter = NoAdapter
    /\ instantiated = 0
    /\ connected = {}
    /\ localStorageSupported \in BOOLEAN
    /\ gaCalls = NoGetAdapterCalls

\* getAdapter up to its first await: with an adapter at hand it returns it;
\* without one it runs createDefaultAdapter and createAdapter, whose check for
\* an adapter to disconnect finds none, constructs a LocalStorageAdapter and
\* waits for its connect()
GetAdapter(p) ==
    /\ gaCalls[p].pc = "idle"
    /\ IF currentAdapter # NoAdapter
       THEN /\ gaCalls' = [gaCalls EXCEPT ![p] = [pc |-> "returned", adapter |-> NoAdapter,
                                                  received |-> currentAdapter]]
            /\ UNCHANGED instantiated
       ELSE /\ instantiated' = instantiated + 1
            /\ gaCalls' = [gaCalls EXCEPT ![p] = [pc |-> "connecting",
                                                  adapter |-> instantiated + 1,
                                                  received |-> NoAdapter]]
    /\ UNCHANGED <<currentAdapter, connected, localStorageSupported, coreVars,
                   aliasVars, krLast, storeVars, rateVars>>

\* createAdapter after await adapter.connect(): the adapter becomes the current
\* one, or connect() threw and the call is rejected
CreateAdapterResume(p) ==
    /\ gaCalls[p].pc = "connecting"
    /\ IF localStorageSupported
       THEN /\ connected' = connected \cup {gaCalls[p].adapter}
            /\ currentAdapter' = gaCalls[p].adapter
            /\ gaCalls' = [gaCalls EXCEPT ![p].pc = "created"]
       ELSE /\ gaCalls' = [gaCalls EXCEPT ![p].pc = "rejected"]
            /\ UNCHANGED <<connected, currentAdapter>>
    /\ UNCHANGED <<instantiated, localStorageSupported, coreVars, aliasVars, krLast,
                   storeVars, rateVars>>

\* getAdapter after await this.createDefaultAdapter(): return this.currentAdapter
GetAdapterResume(p) ==
    /\ gaCalls[p].pc = "created"
    /\ gaCalls' = [gaCalls EXCEPT ![p].pc = "returned", ![p].received = currentAdapter]
    /\ UNCHANGED <<currentAdapter, instantiated, connected, localStorageSupported,
                   coreVars, aliasVars, krLast, storeVars, rateVars>>

FactoryNext ==
    \/ \E p \in Callers : GetAdapter(p)
    \/ \E p \in Callers : CreateAdapterResume(p)
    \/ \E p \in Callers : GetAdapterResume(p)

-----------------------------------------------------------------------------
(* Specifications: one engine runs, the others stay as constructed *)

ScorerIdle ==
    /\ weights = Wts(7, 3, 1, 0)
    /\ groupStats = NoStats
    /\ last = NoCall

TitleIdle ==
    /\ tgConfig = TitleConfig(60, 3, <<>>, TRUE, TRUE, {"keywords"})
    /\ tgCatalog = <<>>
    /\ tgComponents = Components(EmptyStr, EmptyStr, <<>>, <<>>, EmptyStr)
    /\ tgResult = NotCalled

SpacingIdle ==
    /\ svTitle = EmptyStr
    /\ svResult = NotSpaced

RecommenderIdle ==
    /\ rules = <<>>
    /\ crLast = NoRecCall

AliasIdle ==
    /\ customRulesShared = FALSE
    /\ returnedRules = NoArray

KeywordRecommenderIdle == krLast = NoRecommendation

StoreIdle ==
    /\ kwStore = <<>>
    /\ nextId = 0
    /\ clock = 0
    /\ kvLast = NoStoreCall

RateIdle ==
    /\ rateLimitMap = <<>>
    /\ rlNow = 0
    /\ rlPassed = NonePassed
    /\ rlLast = NoRequest

FactoryIdle ==
    /\ currentAdapter = NoAdapter
    /\ instantiated = 0
    /\ connected = {}
    /\ localStorageSupported = TRUE
    /\ gaCalls = NoGetAdapterCalls

ServiceIdle == KeywordRecommenderIdle /\ StoreIdle /\ RateIdle /\ FactoryIdle

ExtIdle == AliasIdle /\ ServiceIdle

ScorerStart == ScorerInit /\ TitleIdle /\ SpacingIdle /\ RecommenderIdle /\ ExtIdle

SpecScorer == ScorerStart /\ [][ScorerNext]_vars

TitleStart == TitleInit /\ ScorerIdle /\ SpacingIdle /\ RecommenderIdle /\ ExtIdle

SpecTitle == TitleStart /\ [][TitleNext]_vars

SpacingStart == SpacingInit /\ ScorerIdle /\ TitleIdle /\ RecommenderIdle /\ ExtIdle

SpecSpacing == SpacingStart /\ [][SpacingNext]_vars

RulesStart == RulesInit /\ ScorerIdle /\ TitleIdle /\ SpacingIdle /\ ExtIdle

SpecRules == RulesStart /\ [][RulesNext]_vars

RecommendStart == RecommendInit /\ ScorerIdle /\ TitleIdle /\ SpacingIdle /\ ExtIdle

SpecRecommend == RecommendStart /\ [][RecommendNext]_vars

TableStart == TableInit /\ ScorerIdle /\ TitleIdle /\ SpacingIdle /\ ServiceIdle

SpecTable == TableStart /\ [][TableNext]_vars

KeywordRecommenderStart ==
    /\ KeywordRecommenderInit
    /\ TitleIdle /\ SpacingIdle /\ RecommenderIdle /\ AliasIdle /\ StoreIdle
    /\ RateIdle /\ FactoryIdle

StoreStart ==
    /\ StoreInit
    /\ ScorerIdle /\ TitleIdle /\ SpacingIdle /\ RecommenderIdle /\ AliasIdle
    /\ KeywordRecommenderIdle /\ RateIdle /\ FactoryIdle

SpecStore == StoreStart /\ [][StoreNext]_vars

RateStart ==
    /\ RateInit
    /\ ScorerIdle /\ TitleIdle /\ SpacingIdle /\ RecommenderIdle /\ AliasIdle
    /\ KeywordRecommenderIdle /\ StoreIdle /\ FactoryIdle

SpecRate == RateStart /\ [][RateNext]_vars

SpecKeywordRecommender == KeywordRecommenderStart /\ [][KeywordRecommenderNext]_vars

FactoryStart ==
    /\ FactoryInit
    /\ ScorerIdle /\ TitleIdle /\ SpacingIdle /\ RecommenderIdle /\ AliasIdle
    /\ KeywordRecommenderIdle /\ StoreIdle /\ RateIdle

SpecFactory == FactoryStart /\ [][FactoryNext]_vars

ChecklistStart == ChecklistInit /\ ScorerIdle /\ TitleIdle /\ SpacingIdle /\ ExtIdle

SpecChecklist == ChecklistStart /\ [][ChecklistNext]_vars

-----------------------------------------------------------------------------
(* Claims about KeywordScorer, checked under SpecScorer *)

SeqRange(s) == {s[i] : i \in 1..Len(s)}

ScoresOf(list) == [i \in 1..Len(list) |-> list[i].score]

AllSameVolume(b) == \A i, j \in 1..Len(b) : b[i].volume = b[j].volume

ScenarioWeights == Wts(7, 3, 1, 0)

\* C1: every score calculateScore returns lies in 0..100 (here in hundredths),
\* for every keyword, weights and group statistics, passed or cached.
C1_ScoreBounds ==
    last.op = "calculateScore"
        => (0 <= last.result.score /\ last.result.score <= 100 * 100)

\* the volume term alone exceeds the denominator's maximum: the upper clamp acted
C1_Witness ==
    /\ last.op = "calculateScore"
    /\ last.result.score = 100 * 100
    /\ last.result.breakdown.volumeScore > 3 * NormScale * WeightScale

\* C2: calculateScores called again on the same list, or on the list it just
\* returned, gives every keyword the same score as the call before.
C2_Idempotent ==
    [][(/\ last.op = "calculateScores"
        /\ last'.op = "calculateScores"
        /\ (last'.arg = last.arg \/ last'.arg = last.result))
          => ScoresOf(last'.result) = ScoresOf(last.result)]_vars

\* a list of two or more already scored keywords was scored again, same scores
C2_Witness ==
    /\ last.op = "calculateScores"
    /\ Len(last.arg) >= 2
    /\ \A i \in 1..Len(last.arg) : last.arg[i].score # NoScore
    /\ \E i \in 1..Len(last.arg) : last.arg[i].score > 0
    /\ ScoresOf(last.result) = ScoresOf(last.arg)
    /\ groupStats # NoStats

\* C3: the result of calculateScore(keyword, stats?) is the same before and
\* after any other operation on the scorer: no step changes what a call with
\* given arguments returns.
C3_PureAcrossCalls ==
    [][\A k \in KeywordUniverse, s \in {NoStats} \cup StatsArgs :
          CalcScore(k, s, groupStats', weights') = CalcScore(k, s, groupStats, weights)]_vars

\* C4 (as amended): on the batch [smartphone 10000/85, case 500/20] with weights
\* {0.7, 0.3, 0.1} calculateScores gives the first keyword 55.78 and the second
\* 0, so the first one scores strictly higher.
C4_FirstScoresHigher ==
    (/\ last.op = "calculateScores"
     /\ last.arg = <<KwSmartphone, KwCase>>
     /\ weights = ScenarioWeights)
        => /\ last.result[1].score = 5578
           /\ last.result[2].score = 0
           /\ last.result[1].score > last.result[2].score

C4_Witness ==
    /\ last.op = "calculateScores"
    /\ last.arg = <<KwSmartphone, KwCase>>
    /\ weights = ScenarioWeights
    /\ Len(last.result) = 2

\* C4 as stated: the second keyword (low competition) scores strictly higher
C4_SecondScoresHigher ==
    (/\ last.op = "calculateScores"
     /\ last.arg = <<KwSmartphone, KwCase>>
     /\ weights = ScenarioWeights)
        => last.result[2].score > last.result[1].score

\* C5: a keyword scored with the statistics of a batch it belongs to, all of
\* whose keywords have the same volume, gets normalizedVolume exactly 0.5; in
\* calculateScores that makes a lone 500/20 keyword score 0.35/1.06 = 33.02.
C5_DegenerateBatch ==
    /\ (/\ last.op = "calculateScore"
        /\ \E b \in Batches :
              /\ Len(b) >= 1
              /\ AllSameVolume(b)
              /\ last.arg \in SeqRange(b)
              /\ last.stats = CalcGroupStats(b))
          => 2 * last.result.normalizedVolume = NormScale
    /\ (/\ last.op = "calculateScores"
        /\ Len(last.arg) >= 1
        /\ SeqRange(last.arg) = {KwCase}
        /\ weights = ScenarioWeights)
          => \A i \in 1..Len(last.result) : last.result[i].score = 3302

C5_Witness ==
    /\ last.op = "calculateScore"
    /\ last.arg = KwCase
    /\ last.stats = CalcGroupStats(<<KwCase, KwCase>>)
    /\ 2 * last.result.normalizedVolume = NormScale
    /\ groupStats # NoStats
    /\ groupStats.minVolume # groupStats.maxVolume

\* C6: calculateGroupStats([]) returns min volume 0, max volume 1, average 0,
\* count 0, and calculateScores([]) returns the empty list.
C6_EmptyBatch ==
    /\ (last.op = "calculateGroupStats" /\ last.arg = <<>>)
          => /\ last.result.minVolume = 0
             /\ last.result.maxVolume = 1
             /\ last.result.avgVolume = 0
             /\ last.result.totalKeywords = 0
    /\ (last.op = "calculateScores" /\ last.arg = <<>>)
          => last.result = <<>>

\* the empty batch came after a non-empty one
C6_Witness ==
    /\ last.op = "calculateGroupStats"
    /\ last.arg = <<>>
    /\ last.result.maxVolume = 1
    /\ groupStats # NoStats

-----------------------------------------------------------------------------
(* Claims about TitleGenerator.generateTitles, checked under SpecTitle *)

\* the requested terms no catalog term equals, ignoring case
MissingRequested ==
    {t \in SeqRange(tgComponents.keywords) :
        \A k \in 1..Len(tgCatalog) : ToLowerCase(tgCatalog[k].term) # ToLowerCase(t)}

NoneRequested == Len(tgComponents.keywords) = 0

TooManyRequested == Len(tgComponents.keywords) > tgConfig.maxKeywords

ThrownParts == {tgResult.error.parts[k] : k \in 1..Len(tgResult.error.parts)}

\* C7: generateTitles raises an error exactly when no term is requested, more
\* than maxKeywords are, or some term matches no catalog term ignoring case; it
\* then returns no title, and the error names the missing terms, all of them and
\* no others.
C7_ValidationExact ==
    tgResult.called
        => /\ tgResult.threw
                <=> (NoneRequested \/ TooManyRequested \/ MissingRequested # {})
           /\ tgResult.threw => Len(tgResult.titles) = 0
           /\ ~tgResult.threw => Len(tgResult.titles) >= 1
           /\ MissingRequested # {}
                => \E part \in ThrownParts :
                      /\ part.message.kind = "missingKeywords"
                      /\ SeqRange(part.message.terms) = MissingRequested
           /\ MissingRequested = {}
                => \A part \in ThrownParts : part.message.kind # "missingKeywords"

\* a request naming a term the catalog spells with another case and a term it lacks
C7_Witness ==
    /\ tgResult.called
    /\ tgResult.threw
    /\ tgComponents.keywords = <<Usb, Pon>>
    /\ \E k \in 1..Len(tgCatalog) : tgCatalog[k].term = UsbCapital
    /\ MissingRequested = {Pon}
    /\ ~TooManyRequested

\* C8: when more terms than maxKeywords are requested and some are missing from
\* the catalog, the error raised carries both violations, each with the name of
\* the offending field.
C8_AllViolationsWithField ==
    (tgResult.called /\ tgResult.threw /\ TooManyRequested /\ MissingRequested # {})
        => /\ TooManyRequested
                => \E part \in ThrownParts :
                      /\ part.message.kind = "tooManyKeywords"
                      /\ "field" \in DOMAIN part
           /\ MissingRequested # {}
                => \E part \in ThrownParts :
                      /\ part.message.kind = "missingKeywords"
                      /\ "field" \in DOMAIN part

\* C9: a returned title longer than config.maxLength has a length issue in issues.
C9_LengthIssue ==
    (tgResult.called /\ ~tgResult.threw)
        => \A k \in 1..Len(tgResult.titles) :
              Len(tgResult.titles[k].title_text) > tgConfig.maxLength
                => \E j \in 1..Len(tgResult.titles[k].issues) :
                      tgResult.titles[k].issues[j].kind
                          \in {"titleTooLong", "lengthExceeded"}

\* a title over the limit and one within it were returned together
C9_Witness ==
    /\ tgResult.called
    /\ ~tgResult.threw
    /\ \E k \in 1..Len(tgResult.titles) :
          /\ Len(tgResult.titles[k].title_text) > tgConfig.maxLength
          /\ \E j \in 1..Len(tgResult.titles[k].issues) :
                tgResult.titles[k].issues[j].kind = "titleTooLong"
    /\ \E k \in 1..Len(tgResult.titles) :
          /\ Len(tgResult.titles[k].title_text) <= tgConfig.maxLength
          /\ Len(tgResult.titles[k].title_text) > 0

\* C10: generateTitles returns at most 10 titles and no returned title has a
\* smaller overall quality score than the one after it.
C10_SortedByOverall ==
    (tgResult.called /\ ~tgResult.threw)
        => /\ Len(tgResult.titles) <= 10
           /\ \A k \in 1..(Len(tgResult.titles) - 1) :
                 tgResult.titles[k].overall >= tgResult.titles[k + 1].overall

\* the candidates generateTitles built for the call, before post-processing
CandidatesOfCall ==
    GenerateTitleCandidates(tgComponents,
        SelectAndSortKeywords(tgConfig, tgCatalog, tgComponents.keywords))

\* the words post-processing removed from a candidate as stopwords
RemovedStopwords(candidate) == RemoveStopwords(tgConfig, candidate.title_text).removedWords

\* C11: the score field of every returned title is its quality on the 0-100
\* scale: the mean of the four sub-scores times 100 (to the nearest unit).
C11_ScoreIsQuality ==
    (tgResult.called /\ ~tgResult.threw)
        => \A k \in 1..Len(tgResult.titles) :
              LET t == tgResult.titles[k]
                  sum == t.breakdown.keywordPlacement + t.breakdown.readability
                         + t.breakdown.length + t.breakdown.uniqueness
              IN t.score = RoundDiv(sum * 100, 4 * SubScale)

\* C12: a candidate that post-processing removed stopword tokens from comes back
\* as a title with an issue that records the removed tokens.
C12_StopwordIssueKept ==
    (tgResult.called /\ ~tgResult.threw)
        => \A c \in 1..Len(CandidatesOfCall) :
              RemovedStopwords(CandidatesOfCall[c]) # <<>>
                  => \E k \in 1..Len(tgResult.titles) :
                        /\ tgResult.titles[k].title_text
                              = PostProcessTitle(tgConfig, CandidatesOfCall[c]).title_text
                        /\ \E j \in 1..Len(tgResult.titles[k].issues) :
                              tgResult.titles[k].issues[j].kind = "stopwordsRemoved"

\* C13: no whitespace-separated token of a returned title_text contains a
\* configured stopword, ignoring case.
C13_NoStopwordToken ==
    (tgResult.called /\ ~tgResult.threw)
        => \A k \in 1..Len(tgResult.titles) :
              LET words == SplitWs(tgResult.titles[k].title_text)
              IN \A w \in 1..Len(words), s \in 1..Len(tgConfig.stopwords) :
                    ~Includes(ToLowerCase(words[w]), ToLowerCase(tgConfig.stopwords[s]))

\* a token that differs from the stopword only in case was removed from a
\* candidate, and the title that came back still has text
C13_Witness ==
    /\ tgResult.called
    /\ ~tgResult.threw
    /\ \E c \in 1..Len(CandidatesOfCall) :
          /\ \E w \in 1..Len(RemovedStopwords(CandidatesOfCall[c])) :
                \A s \in 1..Len(tgConfig.stopwords) :
                    ~Includes(RemovedStopwords(CandidatesOfCall[c])[w], tgConfig.stopwords[s])
          /\ \E k \in 1..Len(tgResult.titles) :
                /\ tgResult.titles[k].title_text
                      = PostProcessTitle(tgConfig, CandidatesOfCall[c]).title_text
                /\ Len(tgResult.titles[k].title_text) > 0

\* C14: every returned title has a non-empty title_text.
C14_NonEmptyTitle ==
    (tgResult.called /\ ~tgResult.threw)
        => \A k \in 1..Len(tgResult.titles) : Len(tgResult.titles[k].title_text) > 0

-----------------------------------------------------------------------------
(* Claims about generateSpacingVariants, checked under SpecSpacing *)

\* C15: the unspaced variant contains no white space character and the spaced
\* variant contains no two consecutive spaces.
C15_SpacingVariants ==
    svResult.called
        => /\ \A k \in 1..Len(svResult.unspaced) : ~IsSpace(svResult.unspaced[k])
           /\ \A k \in 1..(Len(svResult.spaced) - 1) :
                 ~(IsSpace(svResult.spaced[k]) /\ IsSpace(svResult.spaced[k + 1]))

\* a string with a run of white space between two words came back with one
\* space there
C15_Witness ==
    /\ svResult.called
    /\ \E k \in 2..(Len(svTitle) - 2) :
          /\ IsSpace(svTitle[k]) /\ IsSpace(svTitle[k + 1])
          /\ ~IsSpace(svTitle[k - 1]) /\ ~IsSpace(svTitle[k + 2])
    /\ \E k \in 1..Len(svResult.spaced) : svResult.spaced[k] = " "
    /\ Len(svResult.unspaced) < Len(svResult.spaced)

-----------------------------------------------------------------------------
(* Claims about CategoryRecommender.recommendCategories, checked under
   SpecRecommend *)

Recommended == crLast.op = "recommendCategories"

\* the texts the call analysed, joined
CallText ==
    Join([k \in 1..Len(crLast.arg.keywords) |-> ToLowerCase(crLast.arg.keywords[k].term)]
         \o ExtractAdditionalTexts(crLast.arg.components), Sp)

\* no keyword and no pattern of the rule occurs in the text
MatchesNothing(rule, text) ==
    /\ \A k \in 1..Len(rule.keywords) : ~Includes(text, ToLowerCase(rule.keywords[k]))
    /\ \A k \in 1..Len(rule.patterns) : ~PatternTest(rule.patterns[k], text)

ReturnedNames == {crLast.result[k].suggestion.name : k \in 1..Len(crLast.result)}

\* C16: every suggestion has a confidence within 0..100 and a finalScore above
\* 0; a rule of weight 0 or confidence 0, or one that nothing of the input
\* matches, is not among the results.
C16_ConfidenceBound ==
    Recommended
        => /\ \A k \in 1..Len(crLast.result) :
                 /\ crLast.result[k].suggestion.confidence \in 0..100
                 /\ RatLess(RatZero, crLast.result[k].scoreBreakdown.finalScore)
           /\ \A k \in 1..Len(rules) :
                 (\/ rules[k].weight = 0
                  \/ rules[k].confidence = 0
                  \/ MatchesNothing(rules[k], CallText))
                     => rules[k].categoryName \notin ReturnedNames

\* a rule of weight 0 that the input matches is left out, next to a rule
\* returned with confidence 100
C16_Witness ==
    /\ Recommended
    /\ \E k \in 1..Len(rules) :
          /\ rules[k] = ZeroRule
          /\ ~MatchesNothing(ZeroRule, CallText)
    /\ \E k \in 1..Len(crLast.result) : crLast.result[k].suggestion.confidence = 100
    /\ \E k \in 1..Len(rules) : MatchesNothing(rules[k], CallText)

\* the keywords of the rule that some term of the list contains
ContainedKeywords(rule, keywords) ==
    {rule.keywords[k] : k \in {j \in 1..Len(rule.keywords) :
        \E i \in 1..Len(keywords) :
            Includes(ToLowerCase(keywords[i].term), ToLowerCase(rule.keywords[j]))}}

\* C17: with the default menswear rule as the only rule and a keyword list in
\* which some term contains one of the rule's keywords, a call that asks for at
\* least one suggestion returns exactly one, with confidence above 0 and with the
\* contained rule keywords among its keywordMatches.
C17_MenswearOnly ==
    (/\ Recommended
     /\ rules = <<MenswearRule>>
     /\ crLast.arg.maxSuggestions >= 1
     /\ ContainedKeywords(MenswearRule, crLast.arg.keywords) # {})
        => /\ Len(crLast.result) = 1
           /\ crLast.result[1].suggestion.confidence > 0
           /\ ContainedKeywords(MenswearRule, crLast.arg.keywords)
                 \subseteq SeqRange(crLast.result[1].keywordMatches)

C17_Witness ==
    /\ Recommended
    /\ rules = <<MenswearRule>>
    /\ crLast.arg.maxSuggestions = DefaultMaxSuggestions
    /\ crLast.arg.keywords = <<KwUsb, KwShirt>>
    /\ Len(crLast.result) = 1
    /\ Syeocheu \in SeqRange(crLast.result[1].keywordMatches)

\* the finalScore of a rule for the call
FinalScoreOf(rule) ==
    EvaluateRule(rule,
                 [k \in 1..Len(crLast.arg.keywords) |->
                     ToLowerCase(crLast.arg.keywords[k].term)]
                 \o ExtractAdditionalTexts(crLast.arg.components),
                 crLast.arg.keywords).scoreBreakdown.finalScore

\* C18: at most maxSuggestions results come back, in non-increasing order of
\* finalScore, and no rule left out has a finalScore above that of a returned one.
C18_TopSuggestions ==
    Recommended
        => /\ Len(crLast.result) <= crLast.arg.maxSuggestions
           /\ \A k \in 1..(Len(crLast.result) - 1) :
                 ~RatLess(crLast.result[k].scoreBreakdown.finalScore,
                          crLast.result[k + 1].scoreBreakdown.finalScore)
           /\ \A j \in 1..Len(rules), k \in 1..Len(crLast.result) :
                 rules[j].categoryName \notin ReturnedNames
                     => ~RatLess(crLast.result[k].scoreBreakdown.finalScore,
                                 FinalScoreOf(rules[j]))
           /\ \A j \in 1..Len(rules) :
                 (RatLess(RatZero, FinalScoreOf(rules[j]))
                  /\ Len(crLast.result) < crLast.arg.maxSuggestions)
                     => rules[j].categoryName \in ReturnedNames

\* the first rule of the table scores above 0 and is cut off by a later rule
\* that scores higher
C18_Witness ==
    /\ Recommended
    /\ crLast.arg.maxSuggestions = 1
    /\ Len(crLast.result) = 1
    /\ Len(rules) >= 2
    /\ RatLess(RatZero, FinalScoreOf(rules[1]))
    /\ RatLess(FinalScoreOf(rules[1]), crLast.result[1].scoreBreakdown.finalScore)

CappedShare(sum, count) ==
    IF sum >= 100 * 100 * Max2(1, count) THEN RatOne
    ELSE Rat(sum, 100 * 100 * Max2(1, count))

\* C19 as stated: frequencyScore sums score/100 over the keywords with a score
\* above 70 whose term is a substring of some matched rule keyword, divided by
\* max(1, number of keywords) and capped at 1.
C19_TermInsideRuleKeyword ==
    Recommended
        => \A r \in 1..Len(crLast.result) :
              LET matches == crLast.result[r].keywordMatches
                  Counts(keyword) ==
                      /\ keyword.score > 70 * 100
                      /\ \E m \in 1..Len(matches) :
                            Includes(ToLowerCase(matches[m]), ToLowerCase(keyword.term))
              IN crLast.result[r].scoreBreakdown.frequencyScore
                    = CappedShare(SeqSum(ScoresOf(SelectSeq(crLast.arg.keywords, Counts))),
                                  Len(crLast.arg.keywords))

\* C19, corrected: frequencyScore sums score/100 over the keywords with a score
\* above 70 whose term contains some matched rule keyword as a substring,
\* divided by max(1, number of keywords) and capped at 1.
C19_RuleKeywordInsideTerm ==
    Recommended
        => \A r \in 1..Len(crLast.result) :
              LET matches == crLast.result[r].keywordMatches
                  Counts(keyword) ==
                      /\ keyword.score > 70 * 100
                      /\ \E m \in 1..Len(matches) :
                            Includes(ToLowerCase(keyword.term), ToLowerCase(matches[m]))
              IN crLast.result[r].scoreBreakdown.frequencyScore
                    = CappedShare(SeqSum(ScoresOf(SelectSeq(crLast.arg.keywords, Counts))),
                                  Len(crLast.arg.keywords))

\* of two keywords whose terms contain the matched rule keyword, the one of
\* score 100 counts and the one of score 70 does not
C19_Witness ==
    /\ Recommended
    /\ crLast.arg.keywords = <<KwPhone, KwPhoneCase>>
    /\ \E r \in 1..Len(crLast.result) :
          /\ crLast.result[r].keywordMatches = <<Pon>>
          /\ crLast.result[r].scoreBreakdown.frequencyScore = Rat(1, 2)

-----------------------------------------------------------------------------
(* Claims about addRule and removeRule, checked under SpecRules *)

NoRule == [absent |-> TRUE]

\* the rule the table holds under a name
Stored(table, name) ==
    IF FindIndex(table, name) = 0 THEN NoRule ELSE table[FindIndex(table, name)]

\* C20: the table never holds two rules of one categoryName; addRule leaves its
\* rule stored under the rule's name, in place and with the same number of rules
\* when the name was there already; and what is stored under a name changes only
\* by an addRule or a removeRule for that name.
C20_LastWriteWins ==
    /\ []DistinctNames(rules)
    /\ [][/\ crLast'.op = "addRule"
              => /\ Stored(rules', crLast'.arg.categoryName) = crLast'.arg
                 /\ FindIndex(rules, crLast'.arg.categoryName) > 0
                       => /\ Len(rules') = Len(rules)
                          /\ FindIndex(rules', crLast'.arg.categoryName)
                                = FindIndex(rules, crLast'.arg.categoryName)
          /\ \A n \in RuleNames :
                Stored(rules', n) # Stored(rules, n)
                    => \/ crLast'.op = "addRule" /\ crLast'.arg.categoryName = n
                       \/ /\ crLast'.op = "removeRule"
                          /\ crLast'.arg = n
                          /\ Stored(rules', n) = NoRule]_vars

\* addRule replaced the second of three rules by another of the same name
C20_Witness ==
    /\ crLast.op = "addRule"
    /\ crLast.arg = PhoneRule
    /\ rules = <<ZeroRule, PhoneRule, CaseRule>>


-----------------------------------------------------------------------------
(* Claims about the rule table and its callers, checked under SpecTable *)

\* C21: the rule table changes only through addRule and removeRule: the
\* queries leave it unchanged, and so does a change a caller makes to the
\* array getRules returned or to the array it passed to the constructor.
C21_TableOwned ==
    [][rules' # rules => crLast'.op \in {"addRule", "removeRule"}]_vars

-----------------------------------------------------------------------------
(* Claims about the keyword phrase and the length sub-score, under SpecTitle *)

TitlesReturned == tgResult.called /\ ~tgResult.threw

\* the keyword phrase of the call, as the list of its terms
KeywordPhrase == SelectAndSortKeywords(tgConfig, tgCatalog, tgComponents.keywords)

\* the score of the catalog's entry for the term, looked up ignoring case: 0
\* without an entry or without a score (the catalogs name no term twice)
ScoreOfTerm(term) ==
    LET entries == {k \in 1..Len(tgCatalog) :
                       ToLowerCase(tgCatalog[k].term) = ToLowerCase(term)}
    IN IF entries = {} THEN 0
       ELSE LET entry == tgCatalog[CHOOSE k \in entries : TRUE]
            IN IF entry.score = NoScore THEN 0 ELSE entry.score

\* C26: the keyword phrase lists the requested terms in descending catalog
\* score, the entry looked up ignoring case and a missing score counted as 0
\* (so after every positive one), terms of equal score in requested order.
C26_PhraseByScore ==
    TitlesReturned
        => LET requested == tgComponents.keywords
               n == Len(requested)
           IN /\ Len(KeywordPhrase) = n
              /\ \E p \in [1..n -> 1..n] :
                    /\ \A i, j \in 1..n : i # j => p[i] # p[j]
                    /\ \A i \in 1..n : KeywordPhrase[i] = requested[p[i]]
                    /\ \A i, j \in 1..n :
                          i < j =>
                            \/ ScoreOfTerm(requested[p[i]]) > ScoreOfTerm(requested[p[j]])
                            \/ /\ ScoreOfTerm(requested[p[i]]) = ScoreOfTerm(requested[p[j]])
                               /\ p[i] < p[j]
              /\ Len(tgResult.titles) > 0 =>
                    SubSeq(CandidatesOfCall[1].title_text, 1, Len(Join(KeywordPhrase, Sp)))
                        = Join(KeywordPhrase, Sp)

\* three terms were requested: one without a score first, then the best one,
\* then one of score 0, and the phrase has the best one first
C26_Witness ==
    /\ TitlesReturned
    /\ tgComponents.keywords = <<Keiseu, Usb, Halin>>
    /\ ScoreOfTerm(Usb) > 0
    /\ \E k \in 1..Len(tgCatalog) : tgCatalog[k].term = Keiseu /\ tgCatalog[k].score = NoScore
    /\ KeywordPhrase = <<Usb, Keiseu, Halin>>
    /\ Len(tgResult.titles) > 0

\* C27: the length sub-score of a title of length L under the limit M is 0
\* when L > M, 1 when 0.6 M <= L <= 0.9 M, L / (0.6 M) when L < 0.6 M,
\* 1 - 0.3 (L - 0.9 M) / (0.1 M) when 0.9 M < L <= M, which is 0.7 at L = M,
\* and lies in 0..1 (sub-scores in 1/SubScale, rounded down).
C27_LengthScore ==
    TitlesReturned
        => \A k \in 1..Len(tgResult.titles) :
              LET L == Len(tgResult.titles[k].title_text)
                  M == tgConfig.maxLength
                  score == tgResult.titles[k].breakdown.length
              IN /\ 0 <= score /\ score <= SubScale
                 /\ L > M => score = 0
                 /\ (10 * L >= 6 * M /\ 10 * L <= 9 * M) => score = SubScale
                 /\ 10 * L < 6 * M =>
                        /\ score * 6 * M <= 10 * L * SubScale
                        /\ 10 * L * SubScale < (score + 1) * 6 * M
                 /\ (10 * L > 9 * M /\ L <= M) =>
                        /\ (SubScale - score) * 10 * M
                              <= 3 * (10 * L - 9 * M) * SubScale
                        /\ 3 * (10 * L - 9 * M) * SubScale
                              < (SubScale - score + 1) * 10 * M
                 /\ L = M => score = 7 * (SubScale \div 10)

\* one call returned a title in the ideal range, one exactly at the limit with
\* the sub-score 0.7, and one of another range
C27_Witness ==
    /\ TitlesReturned
    /\ LET Length(k) == Len(tgResult.titles[k].title_text)
           Some(Has(_)) == \E k \in 1..Len(tgResult.titles) : Has(k)
           Over(k) == Length(k) > tgConfig.maxLength
           Ideal(k) == /\ 10 * Length(k) >= 6 * tgConfig.maxLength
                       /\ 10 * Length(k) <= 9 * tgConfig.maxLength
           Short(k) == Length(k) > 0 /\ 10 * Length(k) < 6 * tgConfig.maxLength
           AtLimit(k) == /\ Length(k) = tgConfig.maxLength
                         /\ tgResult.titles[k].breakdown.length = 7 * (SubScale \div 10)
           Long(k) == /\ 10 * Length(k) > 9 * tgConfig.maxLength
                      /\ Length(k) < tgConfig.maxLength
       IN Some(Ideal) /\ Some(AtLimit) /\ (Some(Over) \/ Some(Long) \/ Some(Short))

-----------------------------------------------------------------------------
(* Claims about KeywordRecommender, checked under SpecKeywordRecommender *)

RecommendCalled == krLast.op = "recommend"

AdmittedAt(i) ==
    \E r \in 1..Len(krLast.result) : krLast.result[r].position = i

\* the tags of the keywords admitted before the loop came to position i
UsedBefore(i) ==
    UNION {TagSet(krLast.result[r].keyword) :
              r \in {q \in 1..Len(krLast.result) : krLast.result[q].position < i}}

HighScore(i) == krLast.sorted[i].score > 80 * 100

\* the random gate decided position i
GateDecided(i) == i \in DOMAIN krLast.draws

\* C22 as stated: of the keywords the loop comes to, one of score above 80 is
\* admitted, one with at least one tag not yet represented is admitted, and
\* the random gate decides only keywords all of whose tags are represented.
C22_NewTagAdmitted ==
    RecommendCalled
        => \A i \in krLast.visited :
              /\ HighScore(i) => AdmittedAt(i)
              /\ TagSet(krLast.sorted[i]) \ UsedBefore(i) # {} => AdmittedAt(i)
              /\ GateDecided(i) => TagSet(krLast.sorted[i]) \subseteq UsedBefore(i)

\* C22 amended: of the keywords the loop comes to, in descending score order
\* and until count are admitted, one of score above 80 is admitted, one with
\* no tag already represented is admitted, and the random gate decides
\* exactly the others: admitted when the draw exceeds diversityFactor.
C22_NoOverlapAdmitted ==
    RecommendCalled
        => /\ \A i \in 1..(Len(krLast.sorted) - 1) :
                krLast.sorted[i].score >= krLast.sorted[i + 1].score
           /\ Len(krLast.result) <= krLast.count
           /\ \A i \in krLast.visited :
                /\ HighScore(i) => AdmittedAt(i)
                /\ TagSet(krLast.sorted[i]) \cap UsedBefore(i) = {} => AdmittedAt(i)
                /\ GateDecided(i)
                      <=> (~HighScore(i)
                             /\ TagSet(krLast.sorted[i]) \cap UsedBefore(i) # {})
                /\ GateDecided(i)
                      => (AdmittedAt(i) <=> krLast.draws[i] > krLast.diversityFactor)

\* one call in which a keyword of score above 80 was admitted though its tag
\* was represented, and a keyword with one represented tag and one new tag was
\* turned away by the gate
C22_Witness ==
    /\ RecommendCalled
    /\ \E i \in krLast.visited :
          /\ HighScore(i) /\ AdmittedAt(i)
          /\ TagSet(krLast.sorted[i]) \cap UsedBefore(i) # {}
    /\ \E i \in krLast.visited :
          /\ GateDecided(i) /\ ~AdmittedAt(i)
          /\ TagSet(krLast.sorted[i]) \ UsedBefore(i) # {}

-----------------------------------------------------------------------------
(* Claims about the keyword store, checked under SpecStore *)

InRange(competition) == MinCompetition <= competition /\ competition <= MaxCompetition

\* C23: after any sequence of createKeyword, updateKeyword and deleteKeyword
\* calls every stored keyword has a competition in 0..100, and a call that
\* would store a competition outside it ends in a validation error.
C23_CompetitionInRange ==
    /\ \A k \in 1..Len(kwStore) : InRange(kwStore[k].competition)
    /\ (/\ kvLast.op \in {"createKeyword", "updateKeyword"}
        /\ "competition" \in DOMAIN kvLast.arg
        /\ ~InRange(kvLast.arg.competition))
            => kvLast.outcome \in {"ValidationError", "NotFoundError"}

\* C24: starting from the empty store, no two stored keywords have terms that
\* are equal ignoring case.
C24_TermsDistinct ==
    \A j, k \in 1..Len(kwStore) :
        j # k => ToLowerCase(kwStore[j].term) # ToLowerCase(kwStore[k].term)

Rejected == kvLast.outcome \in {"ValidationError", "NotFoundError", "false"}

\* the id names no stored keyword
UnknownId(id) == \A k \in 1..Len(kwStore) : kwStore[k].id # id

\* a stored keyword of another id holds the term, ignoring case
HeldByAnother(id, term) ==
    \E k \in 1..Len(kwStore) :
        kwStore[k].id # id /\ ToLowerCase(kwStore[k].term) = ToLowerCase(term)

InvalidTerm(term) == Len(Trim(term)) = 0 \/ Len(Trim(term)) > MaxTermLength

InvalidData(data) ==
    \/ InvalidTerm(data.term)
    \/ data.volume < 0
    \/ ~InRange(data.competition)
    \/ (data.weight # NoWeight /\ (data.weight < 0 \/ data.weight > 1))

\* C30: a rejected keyword-store call leaves the stored list as it was:
\* createKeyword with invalid data or a term that is stored already (ignoring
\* case) ends in ValidationError, updateKeyword with an unknown id in
\* NotFoundError, updateKeyword with an empty or over-long term, or a term a
\* keyword of another id holds, in ValidationError, deleteKeyword with an
\* unknown id in false, and none of them changes the list. (The call is read
\* in the next state, its conditions in the state it was made in.)
C30_RejectedLeavesStore ==
    [][/\ Rejected' => kwStore' = kwStore
       /\ kvLast'.op = "createKeyword" =>
            ((InvalidData(kvLast'.arg) \/ HeldByAnother(0, kvLast'.arg.term))
                <=> kvLast'.outcome = "ValidationError")
       /\ kvLast'.op = "updateKeyword" =>
            /\ UnknownId(kvLast'.id) <=> kvLast'.outcome = "NotFoundError"
            /\ (/\ ~UnknownId(kvLast'.id)
                /\ "term" \in DOMAIN kvLast'.arg
                /\ (\/ InvalidTerm(kvLast'.arg.term)
                    \/ HeldByAnother(kvLast'.id, kvLast'.arg.term)))
                    <=> kvLast'.outcome = "ValidationError"
       /\ kvLast'.op = "deleteKeyword" =>
            (UnknownId(kvLast'.id) <=> kvLast'.outcome = "false")]_vars

\* with two keywords stored, an update to the other keyword's term in another
\* casing was rejected
C30_Witness ==
    /\ Len(kwStore) >= 2
    /\ kvLast.op = "updateKeyword"
    /\ kvLast.outcome = "ValidationError"
    /\ ~InvalidTerm(kvLast.arg.term)
    /\ \A k \in 1..Len(kwStore) : kwStore[k].term # kvLast.arg.term

-----------------------------------------------------------------------------
(* Claims about the contact route, checked under SpecRate *)

\* the requests of ip that passed at most maxAge half hours ago
PassedWithin(ip, maxAge) ==
    SeqSum([k \in 1..(maxAge + 1) |-> rlPassed[ip][k - 1]])

TurnedAway ==
    rlLast.op = "POST" /\ ~rlLast.passed
        => rlLast.status = 429 /\ ~rlLast.validated /\ ~rlLast.sent

-----------------------------------------------------------------------------
(* Claims about the checklist of a rule, checked under SpecChecklist *)

\* C28: addRule(r) makes getCategoryChecklist(r.categoryName) return
\* r.attributes for as long as r is the rule stored under that name, and
\* removeRule(name) returning true makes getCategoryChecklist(name) return
\* the empty list.
C28_ChecklistFollowsTable ==
    /\ [](\A k \in 1..Len(rules) :
            GetCategoryChecklistOf(rules, rules[k].categoryName) = rules[k].attributes)
    /\ [][(crLast'.op = "removeRule" /\ crLast'.result)
            => GetCategoryChecklistOf(rules', crLast'.arg) = <<>>]_vars

-----------------------------------------------------------------------------
(* Claims about AdapterFactory, checked under SpecFactory *)

Returned(p) == gaCalls[p].pc = "returned"

\* C29: whatever the interleaving of the getAdapter calls made while no adapter
\* exists, one adapter only is constructed and connected, and the callers that
\* have their answer all hold that adapter.
C29_SingleAdapter ==
    localStorageSupported
        => /\ instantiated <= 1
           /\ Cardinality(connected) <= 1
           /\ \A p \in Callers : Returned(p) => connected = {gaCalls[p].received}
           /\ \A p, q \in Callers :
                  Returned(p) /\ Returned(q) => gaCalls[p].received = gaCalls[q].received

=============================================================================
